---- MODULE Spec2Model ----
(***************************************************************************)
(* Model of the analytics core of the DevOps MCP hub                       *)
(* (src/src/ai-analytics.ts): sprint health scoring, workload balancing,   *)
(* issue-text classification and release-note categorisation, each as an   *)
(* operation of AIAnalytics that awaits its collaborators (the Jira        *)
(* client) step by step.                                                   *)
(*                                                                         *)
(* JavaScript strings are modelled as sequences of one-character strings,  *)
(* so that toLowerCase() and String.includes() are computed character by   *)
(* character.  Optional values (undefined / null) are sequences of length  *)
(* at most one.                                                            *)
(***************************************************************************)
EXTENDS Integers, Sequences, FiniteSets, TLC

VARIABLES
  clients,   \* which optional clients the AIAnalytics object was built with
  tracker,   \* the issues the tracker holds for the sprint that is analysed
  pc,        \* position of the running invocation (the await it is suspended at)
  args,      \* arguments of the running invocation
  issues,    \* the local `issues` once the primary fetch has returned
  locals,    \* the other locals that live across an await
  result,    \* <<r>> once the invocation has returned r, <<>> otherwise
  prev,      \* the result of the previous completed invocation, <<>> if none
  calls      \* collaborator calls issued by the running invocation, in order

vars == <<clients, tracker, pc, args, issues, locals, result, prev, calls>>

-----------------------------------------------------------------------------
(* Bounds of the model *)

MaxShort == 2
MaxDone == 6
MaxInProgress == 3
MaxTodo == 6
MaxFewBlocked == 2
MaxBlocked == 21
MaxTeam == 3
MaxAssigned == 3
MaxSolo == 10
MaxUnassigned == 1
MaxRelease == 2
MaxWords == 2

-----------------------------------------------------------------------------
(* JavaScript strings *)

UpperCaseLetters ==
  <<"A","B","C","D","E","F","G","H","I","J","K","L","M",
    "N","O","P","Q","R","S","T","U","V","W","X","Y","Z">>

LowerCaseLetters ==
  <<"a","b","c","d","e","f","g","h","i","j","k","l","m",
    "n","o","p","q","r","s","t","u","v","w","x","y","z">>

\* String.prototype.toLowerCase on one character
toLowerCaseChar(c) ==
  IF \E i \in DOMAIN UpperCaseLetters : UpperCaseLetters[i] = c
  THEN LowerCaseLetters[CHOOSE i \in DOMAIN UpperCaseLetters : UpperCaseLetters[i] = c]
  ELSE c

\* String.prototype.toLowerCase
toLowerCase(str) == [i \in 1..Len(str) |-> toLowerCaseChar(str[i])]

\* String.prototype.includes: k occurs in str as a contiguous substring
includes(str, k) ==
  \E i \in 0..(Len(str) - Len(k)) : SubSeq(str, i + 1, i + Len(k)) = k

\* Array.prototype.includes
arrayIncludes(arr, x) == \E i \in DOMAIN arr : arr[i] = x

\* Math.round of the non-negative ratio num/den (halves round up)
MathRound(num, den) == (2 * num + den) \div (2 * den)

\* Math.max / Math.min
MathMax(a, b) == IF a >= b THEN a ELSE b
MathMin(a, b) == IF a <= b THEN a ELSE b

\* JavaScript truthiness of an optional number: undefined and 0 are falsy
Truthy(opt) == opt # <<>> /\ opt[1] # 0

Range(seq) == {seq[i] : i \in DOMAIN seq}

-----------------------------------------------------------------------------
(* Sprint health analyzer: status names compared in analyzeSprintHealth *)

STATUS ==
  [done |-> <<"d","o","n","e">>,
   closed |-> <<"c","l","o","s","e","d">>,
   resolved |-> <<"r","e","s","o","l","v","e","d">>,
   inProgress |-> <<"i","n"," ","p","r","o","g","r","e","s","s">>,
   inReview |-> <<"i","n"," ","r","e","v","i","e","w">>,
   codeReview |-> <<"c","o","d","e"," ","r","e","v","i","e","w">>,
   blocked |-> <<"b","l","o","c","k","e","d">>,
   impediment |-> <<"i","m","p","e","d","i","m","e","n","t">>]

(* Status names as the tracker reports them *)

StatusNames ==
  [done |-> << <<"D","o","n","e">>,
               <<"c","l","o","s","e","d">>,
               <<"R","E","S","O","L","V","E","D">> >>,
   inProgress |-> << <<"I","n"," ","P","r","o","g","r","e","s","s">>,
                     <<"I","N"," ","R","E","V","I","E","W">>,
                     <<"C","o","d","e"," ","R","e","v","i","e","w">> >>,
   blocked |-> << <<"B","l","o","c","k","e","d">>,
                  <<"I","M","P","E","D","I","M","E","N","T">> >>,
   todo |-> << <<"T","o"," ","D","o">>,
               <<"O","p","e","n">>,
               <<"B","a","c","k","l","o","g">>,
               <<"D","o","n","e","!">> >>,
   short |-> << <<"D","o","n","e">>,
                <<"C","L","O","S","E","D">>,
                <<"I","n"," ","P","r","o","g","r","e","s","s">>,
                <<"T","o"," ","D","o">> >>]
(* One issue of a sprint as analyzeSprintHealth reads it: key, status name,
   optional assignee, optional priority *)
SprintIssue(key, status, assigned, prioritized) ==
  [key |-> key, status |-> status,
   assignee |-> IF assigned THEN <<"someone">> ELSE <<>>,
   priority |-> IF prioritized THEN <<"Medium">> ELSE <<>>]

\* n issues whose status names cycle through `names`, keyed from `first`
IssueRun(names, n, first) ==
  [i \in 1..n |-> SprintIssue(first + i - 1, names[((i - 1) % Len(names)) + 1], TRUE, TRUE)]

\* a sprint with d done, p in-progress, b blocked and t other issues
CountedSprint(d, p, b, t) ==
  IssueRun(StatusNames.done, d, 1) \o IssueRun(StatusNames.inProgress, p, d + 1)
    \o IssueRun(StatusNames.blocked, b, d + p + 1) \o IssueRun(StatusNames.todo, t, d + p + b + 1)

\* sprints with few blocked issues, and sprints with up to MaxBlocked of them
CountedSprints ==
  {CountedSprint(d, p, b, t) :
     d \in 0..MaxDone, p \in 0..MaxInProgress, b \in 0..MaxFewBlocked, t \in 0..MaxTodo}
  \cup
  {CountedSprint(d, p, b, t) : d \in 0..1, p \in 0..1, b \in 0..MaxBlocked, t \in 0..1}

RECURSIVE SeqsUpTo(_, _)
SeqsUpTo(S, n) ==
  IF n = 0 THEN {<<>>}
  ELSE LET shorter == SeqsUpTo(S, n - 1)
       IN  shorter \cup {Append(q, x) : q \in {r \in shorter : Len(r) = n - 1}, x \in S}

\* every sprint of at most MaxShort issues over the short status list, with
\* and without assignee and priority
ShortSprints ==
  {[i \in DOMAIN q |-> SprintIssue(i, q[i][1], q[i][2], q[i][3])] :
     q \in SeqsUpTo((Range(StatusNames.short) \X BOOLEAN \X BOOLEAN), MaxShort)}

\* what getSprintIssues may return; one sprint of 5 in-progress, 1 blocked and
\* 6 other issues has its last issue without assignee
SprintCollections ==
  LET crowded == CountedSprint(0, 5, 1, 6)
  IN  CountedSprints \cup ShortSprints
        \cup {[crowded EXCEPT ![12].assignee = <<>>]}

SprintIds == {1}
BoardIds == {<<>>, <<0>>, <<1>>}

\* replies of getSprints: the board's sprints
SprintLists ==
  { <<>>,
    <<[id |-> 1, name |-> "Alpha"]>>,
    <<[id |-> 2, name |-> "Beta"], [id |-> 1, name |-> "Alpha"]>> }

\* `Sprint ${sprintId}`
DefaultSprintName(sprintId) == "Sprint " \o ToString(sprintId)

\* sprints.values.find(s => s.id === sprintId), then the name if found
ResolveSprintName(values, sprintId) ==
  IF \E i \in DOMAIN values : values[i].id = sprintId
  THEN values[CHOOSE i \in DOMAIN values :
                /\ values[i].id = sprintId
                /\ \A j \in 1..(i - 1) : values[j].id # sprintId].name
  ELSE DefaultSprintName(sprintId)

\* the bucket the status chain of the loop body puts an issue in
StatusBucket(status) ==
  IF status = STATUS.done \/ status = STATUS.closed \/ status = STATUS.resolved
    THEN "done"
  ELSE IF status = STATUS.inProgress \/ status = STATUS.inReview
            \/ status = STATUS.codeReview
    THEN "inProgress"
  ELSE IF status = STATUS.blocked \/ status = STATUS.impediment
    THEN "blocked"
  ELSE "todo"

\* the risk entries one issue adds (unassigned, then no priority)
IssueRisks(issue, status) ==
  (IF issue.assignee = <<>> /\ status # STATUS.done
     THEN << <<"Unassigned issue: ", issue.key>> >> ELSE <<>>)
  \o
  (IF issue.priority = <<>> /\ status # STATUS.done
     THEN << <<"No priority set: ", issue.key>> >> ELSE <<>>)

\* the loop with the last `else` lost: a blocked issue is counted as todo too
RECURSIVE TallyIssuesFallThrough(_, _, _)
TallyIssuesFallThrough(iss, i, acc) ==
  IF i > Len(iss) THEN acc
  ELSE
    LET issue  == iss[i]
        status == toLowerCase(issue.status)
        bucket == StatusBucket(status)
        bd1    == [acc.issueBreakdown EXCEPT ![bucket] = @ + 1]
        bd     == IF bucket = "blocked" THEN [bd1 EXCEPT !.todo = @ + 1] ELSE bd1
    IN  TallyIssuesFallThrough(iss, i + 1,
          [issueBreakdown |-> bd,
           blockedIssues  |-> IF bucket = "blocked"
                                THEN Append(acc.blockedIssues, issue.key)
                                ELSE acc.blockedIssues,
           risks          |-> acc.risks \o IssueRisks(issue, status)])

\* the loop `for (const issue of issues)`, from issue i on
RECURSIVE TallyIssues(_, _, _)
TallyIssues(iss, i, acc) ==
  IF i > Len(iss) THEN acc
  ELSE
    LET issue  == iss[i]
        status == toLowerCase(issue.status)
        bucket == StatusBucket(status)
        bd     == [acc.issueBreakdown EXCEPT ![bucket] = @ + 1]
    IN  TallyIssues(iss, i + 1,
          [issueBreakdown |-> bd,
           blockedIssues  |-> IF bucket = "blocked"
                                THEN Append(acc.blockedIssues, issue.key)
                                ELSE acc.blockedIssues,
           risks          |-> acc.risks \o IssueRisks(issue, status)])

\* r.includes('Unassigned'): of the risk texts only the unassigned entry has it
\* every per-issue risk entry counts as an unassigned one
RiskIncludesIssue(r) == Len(r) = 2

RiskIncludesUnassigned(r) == r[1] = "Unassigned issue: "

\* variant: the bands with > in place of >=
HealthStatusExclusive(healthScore) ==
  IF healthScore > 80 THEN "excellent"
  ELSE IF healthScore > 60 THEN "good"
  ELSE IF healthScore > 40 THEN "at-risk"
  ELSE "critical"

\* the healthStatus chain
HealthStatusOf(healthScore) ==
  IF healthScore >= 80 THEN "excellent"
  ELSE IF healthScore >= 60 THEN "good"
  ELSE IF healthScore >= 40 THEN "at-risk"
  ELSE "critical"

\* completionRate: Math.round((done / total) * 100), 0 for an empty sprint
CompletionRate(bd) ==
  IF bd.total > 0 THEN MathRound(bd.done * 100, bd.total) ELSE 0

\* variant: the WIP test with >= in place of >
WipOverloadInclusive(inProgress, n) == 5 * inProgress >= 2 * n

\* inProgress > n * 0.4
WipOverload(inProgress, n) == 5 * inProgress > 2 * n

\* todo > done && completionRate < 50
MoreRemaining(bd, completionRate) == bd.todo > bd.done /\ completionRate < 50

\* variant: 10 points per blocked issue in place of 5
RawHealthScoreBlockedTen(bd, completionRate, n) ==
  100 - MathMax(0, 50 - completionRate) - bd.blocked * 10
    - (IF WipOverload(bd.inProgress, n) THEN 10 ELSE 0)
    - (IF MoreRemaining(bd, completionRate) THEN 10 ELSE 0)

\* healthScore before the clamp: 100 less the four deductions
RawHealthScore(bd, completionRate, n) ==
  100 - MathMax(0, 50 - completionRate) - bd.blocked * 5
    - (IF WipOverload(bd.inProgress, n) THEN 10 ELSE 0)
    - (IF MoreRemaining(bd, completionRate) THEN 10 ELSE 0)

\* variant: the clamp without its lower bound
ClampScoreUpperOnly(raw) == MathMin(100, raw)

\* Math.max(0, Math.min(100, healthScore))
ClampScore(raw) == MathMax(0, MathMin(100, raw))

\* the body of analyzeSprintHealth after the fetches
SprintHealth(sprintId, sprintName, iss) ==
  LET tally == TallyIssues(iss, 1,
                 [issueBreakdown |-> [total |-> Len(iss), done |-> 0, inProgress |-> 0,
                                      todo |-> 0, blocked |-> 0],
                  blockedIssues  |-> <<>>,
                  risks          |-> <<>>])
      bd == tally.issueBreakdown
      completionRate == CompletionRate(bd)
      wipOverload == WipOverload(bd.inProgress, Len(iss))
      moreRemaining == MoreRemaining(bd, completionRate)
      healthScore == ClampScore(RawHealthScore(bd, completionRate, Len(iss)))
      healthStatus == HealthStatusOf(healthScore)
      risks == tally.risks
                 \o (IF wipOverload
                       THEN << <<"Too many issues in progress (WIP overload)">> >> ELSE <<>>)
                 \o (IF moreRemaining
                       THEN << <<"More work remaining than completed">> >> ELSE <<>>)
      burndownHealth == IF completionRate > 70 THEN "ahead"
                        ELSE IF completionRate < 30 /\ bd.inProgress < 3 THEN "behind"
                        ELSE "on-track"
      recs4 ==
        (IF bd.blocked > 0
           THEN << <<"Address blocked issue(s) immediately", bd.blocked>> >> ELSE <<>>)
        \o (IF WipOverload(bd.inProgress, bd.total)
              THEN << <<"Focus on completing in-progress work before starting new items">> >>
              ELSE <<>>)
        \o (IF \E i \in DOMAIN risks : RiskIncludesUnassigned(risks[i])
              THEN << <<"Assign owners to all remaining issues">> >> ELSE <<>>)
        \o (IF completionRate < 50 /\ bd.todo > 5
              THEN << <<"Consider reducing sprint scope">> >> ELSE <<>>)
      recommendations ==
        IF healthStatus = "excellent" /\ Len(recs4) = 0
          THEN << <<"Sprint is progressing well - maintain current pace">> >>
          ELSE recs4
  IN  [sprintName |-> sprintName,
       sprintId |-> sprintId,
       healthScore |-> healthScore,
       healthStatus |-> healthStatus,
       metrics |-> [completionRate |-> completionRate,
                    velocityTrend |-> "stable",
                    scopeChange |-> 0,
                    blockedIssues |-> bd.blocked,
                    avgCycleTime |-> 0,
                    burndownHealth |-> burndownHealth],
       risks |-> risks,
       recommendations |-> recommendations,
       issueBreakdown |-> bd]

\* the state between operations
Idle == pc \in {"idle", "done", "failed"}

\* what an invocation leaves as the previous result when the next one starts
Previous == IF pc = "done" THEN result ELSE prev

InitSprint ==
  /\ clients = [github |-> FALSE, confluence |-> FALSE]
  /\ locals = <<>>
  /\ tracker \in SprintCollections
  /\ pc = "idle"
  /\ args = <<>>
  /\ issues = <<>>
  /\ result = <<>>
  /\ prev = <<>>
  /\ calls = <<>>

\* analyzeSprintHealth(sprintId, boardId) up to its first await
CallAnalyzeSprintHealth ==
  /\ Idle
  /\ \E sprintId \in SprintIds, boardId \in BoardIds :
       args' = [sprintId |-> sprintId, boardId |-> boardId]
  /\ pc' = "getSprintIssues"
  /\ calls' = <<[fn |-> "getSprintIssues"]>>
  /\ prev' = Previous
  /\ result' = <<>>
  /\ issues' = <<>>
  /\ locals' = <<>>
  /\ UNCHANGED tracker
  /\ UNCHANGED clients

\* getSprintIssues resolves; with a truthy boardId the sprint lookup is awaited next
GetSprintIssuesReturns ==
  /\ pc = "getSprintIssues"
  /\ issues' = tracker
  /\ IF Truthy(args.boardId)
       THEN /\ pc' = "getSprints"
            /\ calls' = Append(calls, [fn |-> "getSprints"])
            /\ result' = <<>>
       ELSE /\ pc' = "done"
            /\ calls' = calls
            /\ result' = <<SprintHealth(args.sprintId, DefaultSprintName(args.sprintId),
                                        tracker)>>
  /\ UNCHANGED <<tracker, args, prev>>
  /\ UNCHANGED <<clients, locals>>

\* variant: the error of getSprintIssues is caught and the analysis goes on
\* with no issues
GetSprintIssuesThrowsAbsorbed ==
  /\ pc = "getSprintIssues"
  /\ issues' = <<>>
  /\ IF Truthy(args.boardId)
       THEN /\ pc' = "getSprints"
            /\ calls' = Append(calls, [fn |-> "getSprints"])
            /\ result' = <<>>
       ELSE /\ pc' = "done"
            /\ calls' = calls
            /\ result' = <<SprintHealth(args.sprintId, DefaultSprintName(args.sprintId),
                                        <<>>)>>
  /\ UNCHANGED <<tracker, args, prev>>
  /\ UNCHANGED <<clients, locals>>

\* getSprintIssues rejects: the error leaves analyzeSprintHealth
GetSprintIssuesThrows ==
  /\ pc = "getSprintIssues"
  /\ pc' = "failed"
  /\ result' = <<>>
  /\ UNCHANGED <<tracker, args, issues, prev, calls>>
  /\ UNCHANGED <<clients, locals>>

\* getSprints resolves with the board's sprints, kept in the local `sprints`
GetSprintsReturns ==
  /\ pc = "getSprints"
  /\ \E values \in SprintLists :
       /\ locals' = <<[sprints |-> values]>>
       /\ result' = <<SprintHealth(args.sprintId,
                                   ResolveSprintName(values, args.sprintId), issues)>>
  /\ pc' = "done"
  /\ UNCHANGED <<tracker, args, issues, prev, calls>>
  /\ UNCHANGED clients

\* variant: the error of the sprint lookup leaves analyzeSprintHealth
GetSprintsThrowsUncaught ==
  /\ pc = "getSprints"
  /\ pc' = "failed"
  /\ result' = <<>>
  /\ UNCHANGED <<tracker, args, issues, prev, calls>>
  /\ UNCHANGED <<clients, locals>>

\* getSprints rejects: caught, the default name stays and `sprints` is never
\* assigned
GetSprintsThrows ==
  /\ pc = "getSprints"
  /\ result' = <<SprintHealth(args.sprintId, DefaultSprintName(args.sprintId), issues)>>
  /\ pc' = "done"
  /\ UNCHANGED <<tracker, args, issues, prev, calls>>
  /\ UNCHANGED <<clients, locals>>

NextSprint ==
  \/ CallAnalyzeSprintHealth
  \/ GetSprintIssuesReturns
  \/ GetSprintIssuesThrows
  \/ GetSprintsReturns
  \/ GetSprintsThrows

SpecSprint == InitSprint /\ [][NextSprint]_vars

-----------------------------------------------------------------------------
(* Properties of analyzeSprintHealth, checked under SpecSprint *)

SprintDone == pc = "done" /\ result # <<>>

\* the number of fetched issues whose lower-cased status name is in `names`
CountStatusIn(names) ==
  Cardinality({i \in DOMAIN issues : toLowerCase(issues[i].status) \in names})

\* C1: every fetched issue is counted in exactly one bucket, chosen by its
\* lower-cased status name (done|closed|resolved -> done; in progress|in
\* review|code review -> inProgress; blocked|impediment -> blocked; anything
\* else -> todo), so done + inProgress + todo + blocked = total = the number
\* of issues.
C1_BreakdownPartition ==
  SprintDone =>
    LET bd == result[1].issueBreakdown
        doneNames == {STATUS.done, STATUS.closed, STATUS.resolved}
        progressNames == {STATUS.inProgress, STATUS.inReview, STATUS.codeReview}
        blockedNames == {STATUS.blocked, STATUS.impediment}
    IN  /\ bd.done = CountStatusIn(doneNames)
        /\ bd.inProgress = CountStatusIn(progressNames)
        /\ bd.blocked = CountStatusIn(blockedNames)
        /\ bd.todo = Len(issues) - CountStatusIn(doneNames \cup progressNames \cup blockedNames)
        /\ bd.done + bd.inProgress + bd.todo + bd.blocked = bd.total
        /\ bd.total = Len(issues)

\* a returned breakdown with all four buckets used, one of them by a status
\* name that is not lower case
C1_Witness ==
  /\ SprintDone
  /\ result[1].issueBreakdown.done > 0
  /\ result[1].issueBreakdown.inProgress > 0
  /\ result[1].issueBreakdown.blocked > 0
  /\ result[1].issueBreakdown.todo > 0
  /\ \E i \in DOMAIN issues : toLowerCase(issues[i].status) # issues[i].status

\* C2: the returned healthScore is an integer in [0,100] for every issue
\* collection, also when 5 x blocked exceeds 100.
C2_HealthScoreRange ==
  SprintDone => result[1].healthScore \in 0..100

\* a returned result for a sprint whose blocked deduction alone exceeds 100
C2_Witness ==
  /\ SprintDone
  /\ 5 * result[1].issueBreakdown.blocked > 100
  /\ result[1].healthScore = 0

\* the completion rate as the claim states it: the integer nearest to
\* 100 * done / total (halves up), 0 for an empty sprint
IsRoundedPercentage(k, done, total) ==
  IF total = 0 THEN k = 0
  ELSE (2 * k - 1) * total <= 200 * done /\ 200 * done < (2 * k + 1) * total

SixTwoOneOne == CountedSprint(6, 2, 1, 1)

\* C3: healthScore = clamp(100 - max(0, 50 - completionRate) - 5*blocked
\* - (10 if inProgress > 0.4*total) - (10 if todo > done and completionRate
\* < 50), 0, 100) with completionRate = round(100*done/total) (0 when total
\* = 0); a sprint of 10 issues with 6 done, 2 in progress, 1 blocked and 1
\* todo gets completionRate 60, healthScore 95 and healthStatus excellent.
C3_HealthScoreFormula ==
  SprintDone =>
    LET r  == result[1]
        bd == r.issueBreakdown
        cr == r.metrics.completionRate
        behind == IF cr < 50 THEN 50 - cr ELSE 0
        wip == IF 10 * bd.inProgress > 4 * bd.total THEN 10 ELSE 0
        remaining == IF bd.todo > bd.done /\ cr < 50 THEN 10 ELSE 0
        score == 100 - behind - 5 * bd.blocked - wip - remaining
    IN  /\ IsRoundedPercentage(cr, bd.done, bd.total)
        /\ r.healthScore = (IF score < 0 THEN 0 ELSE IF score > 100 THEN 100 ELSE score)
        /\ issues = SixTwoOneOne =>
             /\ bd.total = 10
             /\ cr = 60
             /\ r.healthScore = 95
             /\ r.healthStatus = "excellent"

\* the scenario sprint has been analysed
C3_Witness == SprintDone /\ issues = SixTwoOneOne

\* C4: healthStatus is decided by the clamped healthScore alone (>= 80
\* excellent, 60..79 good, 40..59 at-risk, below 40 critical), and a second
\* run on the same issue collection returns the same healthScore and
\* healthStatus as the first.
C4_StatusBandsDeterministic ==
  SprintDone =>
    LET r == result[1]
    IN  /\ r.healthStatus = "excellent" <=> r.healthScore >= 80
        /\ r.healthStatus = "good" <=> (60 <= r.healthScore /\ r.healthScore < 80)
        /\ r.healthStatus = "at-risk" <=> (40 <= r.healthScore /\ r.healthScore < 60)
        /\ r.healthStatus = "critical" <=> r.healthScore < 40
        /\ prev # <<>> =>
             /\ prev[1].healthScore = r.healthScore
             /\ prev[1].healthStatus = r.healthStatus

\* a second run has returned with the score on a band boundary
C4_Witness ==
  /\ SprintDone
  /\ prev # <<>>
  /\ result[1].healthScore = 60
  /\ result[1].healthStatus = "good"

\* C5: on an empty sprint the operation returns total = 0, completionRate =
\* 0, healthScore = 50 and healthStatus = at-risk, with no WIP-overload or
\* more-remaining deduction (no such risk entry).
C5_EmptySprint ==
  (SprintDone /\ Len(issues) = 0) =>
    LET r == result[1]
    IN  /\ r.issueBreakdown.total = 0
        /\ r.metrics.completionRate = 0
        /\ r.healthScore = 50
        /\ r.healthStatus = "at-risk"
        /\ r.risks = <<>>

\* the empty sprint has been analysed
C5_Witness == SprintDone /\ tracker = <<>> /\ issues = <<>>


\* the sprint lookup was attempted in the invocation
LookupAttempted == \E i \in DOMAIN calls : calls[i].fn = "getSprints"

\* the sprint lookup was attempted and threw
LookupThrew == LookupAttempted /\ locals = <<>>

\* the sprint lookup returned a list without the sprint id
LookupWithoutSprint ==
  /\ LookupAttempted
  /\ locals # <<>>
  /\ \A i \in DOMAIN locals[1].sprints : locals[1].sprints[i].id # args.sprintId

\* C14: a failure of the sprint-name lookup, or the sprint id not being in
\* the returned list, never fails analyzeSprintHealth: it completes with
\* sprintName = 'Sprint <sprintId>' and with the healthScore, healthStatus,
\* issueBreakdown, risks and recommendations of any other run on the same
\* issues; the lookup is attempted only when a boardId is supplied.
C14_LookupFailureAbsorbed ==
  /\ pc = "failed" => ~LookupAttempted
  /\ pc \in {"getSprints", "done"} /\ LookupAttempted => args.boardId # <<>>
  /\ SprintDone =>
       LET r == result[1]
       IN  /\ (LookupThrew \/ LookupWithoutSprint) =>
                r.sprintName = "Sprint " \o ToString(args.sprintId)
           /\ prev # <<>> =>
                /\ r.healthScore = prev[1].healthScore
                /\ r.healthStatus = prev[1].healthStatus
                /\ r.issueBreakdown = prev[1].issueBreakdown
                /\ r.risks = prev[1].risks
                /\ r.recommendations = prev[1].recommendations

\* a run whose lookup threw has completed on a sprint with issues, after a
\* run whose lookup found the name
C14_Witness ==
  /\ SprintDone
  /\ LookupThrew
  /\ Len(issues) > 0
  /\ result[1].sprintName = "Sprint 1"
  /\ prev # <<>>
  /\ prev[1].sprintName = "Alpha"
  /\ prev[1].healthScore = result[1].healthScore

\* the number of entries of the returned risks equal to `entry`
RiskCount(entry) ==
  Cardinality({k \in DOMAIN result[1].risks : result[1].risks[k] = entry})

\* the issue is counted in the done bucket: done, closed or resolved in any
\* letter case
CountedDone(issue) ==
  toLowerCase(issue.status) \in {STATUS.done, STATUS.closed, STATUS.resolved}

\* C20: for each issue one 'Unassigned issue' risk entry is added exactly
\* when the issue has no assignee and is not done, and one 'No priority set'
\* entry exactly when it has no priority and is not done; an issue counted in
\* the done bucket (done, closed or resolved, in any letter case) never
\* produces either entry, and entries are not deduplicated across issues.
C20_RiskDetection ==
  SprintDone =>
    \A i \in DOMAIN issues :
      /\ RiskCount(<<"Unassigned issue: ", issues[i].key>>)
           = IF issues[i].assignee = <<>> /\ ~CountedDone(issues[i]) THEN 1 ELSE 0
      /\ RiskCount(<<"No priority set: ", issues[i].key>>)
           = IF issues[i].priority = <<>> /\ ~CountedDone(issues[i]) THEN 1 ELSE 0
\* the recommendations the four triggers give on the reported breakdown,
\* completion rate and risks, in the fixed order
TriggeredRecommendations(r) ==
  LET bd == r.issueBreakdown
  IN  (IF bd.blocked > 0
         THEN << <<"Address blocked issue(s) immediately", bd.blocked>> >> ELSE <<>>)
      \o (IF 5 * bd.inProgress > 2 * bd.total
            THEN << <<"Focus on completing in-progress work before starting new items">> >>
            ELSE <<>>)
      \o (IF \E i \in DOMAIN r.risks : r.risks[i][1] = "Unassigned issue: "
            THEN << <<"Assign owners to all remaining issues">> >> ELSE <<>>)
      \o (IF r.metrics.completionRate < 50 /\ bd.todo > 5
            THEN << <<"Consider reducing sprint scope">> >> ELSE <<>>)

\* C21: the sprint recommendations are, in the fixed order, address blocked
\* (iff blocked > 0), finish WIP (iff inProgress > 0.4 * total), assign owners
\* (iff an unassigned risk exists) and reduce scope (iff completionRate < 50
\* and todo > 5), each present exactly when its trigger holds; 'maintain
\* current pace' is present exactly when none of the four triggered and
\* healthStatus is excellent, and is then the only recommendation.
C21_RecommendationOrder ==
  SprintDone =>
    LET r == result[1]
        four == TriggeredRecommendations(r)
        maintain == <<"Sprint is progressing well - maintain current pace">>
    IN  /\ r.recommendations =
             IF four = <<>> /\ r.healthStatus = "excellent" THEN <<maintain>> ELSE four
        /\ arrayIncludes(r.recommendations, maintain)
             <=> (four = <<>> /\ r.healthStatus = "excellent")

\* a sprint on which all four triggers hold has been analysed: the four
\* recommendations are returned in the fixed order
C21_Witness ==
  /\ SprintDone
  /\ Len(result[1].recommendations) = 4
  /\ result[1].recommendations[1] = <<"Address blocked issue(s) immediately", 1>>
  /\ result[1].recommendations[3] = <<"Assign owners to all remaining issues">>
  /\ result[1].recommendations[4] = <<"Consider reducing sprint scope">>

-----------------------------------------------------------------------------
(* Team workload dashboard *)

\* the words looked for in a lower-cased status name
StatusWord ==
  [progress |-> <<"p","r","o","g","r","e","s","s">>,
   review |-> <<"r","e","v","i","e","w">>,
   done |-> <<"d","o","n","e">>,
   closed |-> <<"c","l","o","s","e","d">>]

\* status names of the issues of a member, in turn
WorkloadStatusNames ==
  << <<"I","n"," ","P","r","o","g","r","e","s","s">>,
     <<"T","o"," ","D","o">>,
     <<"C","o","d","e"," ","R","e","v","i","e","w">>,
     <<"O","p","e","n">>,
     <<"I","N"," ","R","E","V","I","E","W">>,
     <<"D","o","n","e">>,
     <<"I","n"," ","P","r","o","g","r","e","s","s">> >>

MemberNames == <<"Asha", "Bram", "Chen", "Dana", "Emil", "Fay", "Gus", "Hoa">>

\* One issue as generateWorkloadDashboard reads it: status name, optional
\* assignee display name, and the days since its last update
WorkloadIssue(key, status, assignee, daysSinceUpdate) ==
  [key |-> key, status |-> status, assignee |-> assignee,
   daysSinceUpdate |-> daysSinceUpdate]

\* the n issues of one member: statuses in turn, every third issue stale
MemberRun(name, n, first) ==
  [i \in 1..n |->
     WorkloadIssue(first + i - 1,
                   WorkloadStatusNames[((i - 1) % Len(WorkloadStatusNames)) + 1],
                   <<name>>,
                   IF i % 3 = 0 THEN 20 ELSE 1)]

RECURSIVE SumSeq(_)
SumSeq(q) == IF q = <<>> THEN 0 ELSE q[1] + SumSeq(Tail(q))

\* the issues of a team whose members (in order) hold counts[i] issues each,
\* preceded by u issues without assignee
RECURSIVE TeamIssuesFrom(_, _, _)
TeamIssuesFrom(counts, m, first) ==
  IF m > Len(counts) THEN <<>>
  ELSE MemberRun(MemberNames[m], counts[m], first)
         \o TeamIssuesFrom(counts, m + 1, first + counts[m])

TeamIssues(counts, u) ==
  [i \in 1..u |-> WorkloadIssue(i, WorkloadStatusNames[1], <<>>, 1)]
    \o TeamIssuesFrom(counts, 1, u + 1)

\* the team of the project report (7 members), a team with one member far
\* above the other, a team with a member on each side of every threshold, and
\* two teams with a standard deviation of 5 and just above 5
ScenarioTeams ==
  { <<14, 4, 3, 3, 3, 2, 1>>, <<22, 1>>, <<9, 8, 6, 5, 3, 2>>, <<11, 1>>, <<14, 4, 3, 1>> }

\* what searchIssues may return: the issues of a team of at most MaxTeam
\* members with at most MaxAssigned issues each (heaviest member first), of
\* a single member with up to MaxSolo issues, or of a scenario team; and for
\* some teams also up to MaxUnassigned issues without assignee
WorkloadCollections ==
  LET generalTeams == {q \in SeqsUpTo(1..MaxAssigned, MaxTeam) :
                         \A i \in 1..(Len(q) - 1) : q[i] >= q[i + 1]}
      soloTeams == {<<n>> : n \in 1..MaxSolo}
  IN  {TeamIssues(q, 0) : q \in generalTeams \cup soloTeams \cup ScenarioTeams}
      \cup
      {TeamIssues(q, u) : q \in ScenarioTeams \cup {<<>>, <<1>>}, u \in 1..MaxUnassigned}

\* the JQL of the primary fetch, clause by clause
WorkloadJql(projectKey, sprintId) ==
  <<"assignee is not EMPTY">>
    \o (IF projectKey # <<>> THEN <<"project = " \o projectKey[1]>> ELSE <<>>)
    \o (IF Truthy(sprintId)
          THEN <<"sprint = " \o ToString(sprintId[1])>>
          ELSE <<"status != Done", "status != Closed">>)

\* the keys of assigneeMap in insertion order: display names by first appearance
RECURSIVE AssigneeKeys(_, _, _)
AssigneeKeys(iss, i, keys) ==
  IF i > Len(iss) THEN keys
  ELSE IF iss[i].assignee # <<>> /\ ~arrayIncludes(keys, iss[i].assignee[1])
    THEN AssigneeKeys(iss, i + 1, Append(keys, iss[i].assignee[1]))
    ELSE AssigneeKeys(iss, i + 1, keys)

\* assigneeMap.get(key): the issues of one display name, in order
MemberIssues(iss, name) ==
  SelectSeq(iss, LAMBDA issue : issue.assignee = <<name>>)

\* variant: the thresholds with < in place of <=
WorkloadStatusStrict(assignedIssues) ==
  IF assignedIssues < 2 THEN "underutilized"
  ELSE IF assignedIssues < 5 THEN "optimal"
  ELSE IF assignedIssues < 8 THEN "heavy"
  ELSE "overloaded"

\* the workloadStatus chain
WorkloadStatusOf(assignedIssues) ==
  IF assignedIssues <= 2 THEN "underutilized"
  ELSE IF assignedIssues <= 5 THEN "optimal"
  ELSE IF assignedIssues <= 8 THEN "heavy"
  ELSE "overloaded"

\* the body of the loop over assigneeMap for one member
MemberMetrics(name, memberIssues) ==
  LET assignedIssues == Len(memberIssues)
      inProgressIssues ==
        Len(SelectSeq(memberIssues,
          LAMBDA issue : LET status == toLowerCase(issue.status)
                         IN  includes(status, StatusWord.progress) \/ includes(status, StatusWord.review)))
      overdueTasks ==
        Len(SelectSeq(memberIssues,
          LAMBDA issue : LET status == toLowerCase(issue.status)
                         IN  /\ issue.daysSinceUpdate > 14
                             /\ ~includes(status, StatusWord.done)
                             /\ ~includes(status, StatusWord.closed)))
      workloadStatus == WorkloadStatusOf(assignedIssues)
      riskFactors ==
        (IF workloadStatus = "overloaded"
           THEN << <<"Has assigned issues", assignedIssues>> >> ELSE <<>>)
        \o (IF inProgressIssues > 3
              THEN << <<"Too many items in progress simultaneously">> >> ELSE <<>>)
        \o (IF overdueTasks > 0
              THEN << <<"potentially stale issue(s)", overdueTasks>> >> ELSE <<>>)
  IN  [teamMember |-> name,
       userId |-> "",
       metrics |-> [assignedIssues |-> assignedIssues,
                    inProgressIssues |-> inProgressIssues,
                    completedThisWeek |-> 0,
                    storyPointsAssigned |-> 0,
                    storyPointsCompleted |-> 0,
                    overdueTasks |-> overdueTasks,
                    avgCompletionTime |-> 0],
       workloadStatus |-> workloadStatus,
       riskFactors |-> riskFactors]

RECURSIVE SumSquares(_)
SumSquares(q) == IF q = <<>> THEN 0 ELSE q[1] * q[1] + SumSquares(Tail(q))

\* variant: the sample variance (divisor n - 1)
VarianceSample(workloads) ==
  LET n == Len(workloads)
  IN  IF n > 1
        THEN [num |-> n * SumSquares(workloads) - SumSeq(workloads) * SumSeq(workloads),
              den |-> n * (n - 1)]
        ELSE [num |-> 0, den |-> 1]

\* variance: the mean of the squared deviations from avgWorkload, as the exact
\* fraction num/den = (n * sum(w^2) - sum(w)^2) / n^2; 0 for no member
Variance(workloads) ==
  LET n == Len(workloads)
  IN  IF n > 0
        THEN [num |-> n * SumSquares(workloads) - SumSeq(workloads) * SumSeq(workloads),
              den |-> n * n]
        ELSE [num |-> 0, den |-> 1]

\* variant: the score without Math.max(0, .)
RoundedBalanceNoFloor(variance) ==
  CHOOSE k \in -200..100 :
    /\ 400 * variance.num <= (201 - 2 * k) * (201 - 2 * k) * variance.den
    /\ k = 100 \/ 400 * variance.num > (199 - 2 * k) * (199 - 2 * k) * variance.den

\* Math.round(Math.max(0, Math.min(100, 100 - stdDev * 10))) with stdDev =
\* Math.sqrt(variance): the integer k of 0..100 with k - 1/2 <= the clamped
\* value < k + 1/2, the comparisons with 10 * sqrt(num/den) taken squared
RoundedBalance(variance) ==
  CHOOSE k \in 0..100 :
    /\ k = 0 \/ 400 * variance.num <= (201 - 2 * k) * (201 - 2 * k) * variance.den
    /\ k = 100 \/ 400 * variance.num > (199 - 2 * k) * (199 - 2 * k) * variance.den

\* variant: the test on the rounded score
BalanceBelowFiftyRounded(variance) == RoundedBalance(variance) < 50

\* balanceScore < 50 on the unrounded score: 100 - 10 * stdDev < 50
BalanceBelowFifty(variance) == variance.num > 25 * variance.den

\* `${names.join(', ')}`
TeamMembers(ws) == [i \in DOMAIN ws |-> ws[i].teamMember]

\* the body of generateWorkloadDashboard after the fetch
WorkloadDashboard(sprintId, iss) ==
  LET keys == AssigneeKeys(iss, 1, <<>>)
      workloadDistribution ==
        [m \in DOMAIN keys |-> MemberMetrics(keys[m], MemberIssues(iss, keys[m]))]
      workloads == [m \in DOMAIN keys |-> workloadDistribution[m].metrics.assignedIssues]
      variance == Variance(workloads)
      overloaded == SelectSeq(workloadDistribution,
                              LAMBDA w : w.workloadStatus = "overloaded")
      underutilized == SelectSeq(workloadDistribution,
                                 LAMBDA w : w.workloadStatus = "underutilized")
      highWIP == SelectSeq(workloadDistribution,
                           LAMBDA w : w.metrics.inProgressIssues > 3)
      recommendations ==
        (IF Len(overloaded) > 0 /\ Len(underutilized) > 0
           THEN << <<"Redistribute work", TeamMembers(overloaded),
                     TeamMembers(underutilized)>> >>
           ELSE <<>>)
        \o (IF Len(highWIP) > 0
              THEN << <<"should focus on completing current work", TeamMembers(highWIP)>> >>
              ELSE <<>>)
        \o (IF BalanceBelowFifty(variance)
              THEN << <<"Team workload is uneven - consider more balanced task distribution">> >>
              ELSE <<>>)
      bottlenecks ==
        [i \in DOMAIN overloaded |->
           <<"is overloaded", overloaded[i].teamMember,
             overloaded[i].metrics.assignedIssues>>]
  IN  [sprintName |-> IF Truthy(sprintId) THEN <<DefaultSprintName(sprintId[1])>> ELSE <<>>,
       teamSize |-> Len(keys),
       totalIssues |-> Len(iss),
       \* Math.round(avgWorkload * 10) / 10, in tenths
       averageWorkloadTenths |->
         IF Len(workloads) > 0 THEN MathRound(SumSeq(workloads) * 10, Len(workloads)) ELSE 0,
       workloadDistribution |-> workloadDistribution,
       balanceScore |-> RoundedBalance(variance),
       recommendations |-> recommendations,
       bottlenecks |-> bottlenecks]

\* the assigned-issue counts of the members of a returned dashboard
AssignedCounts(dashboard) ==
  [m \in DOMAIN dashboard.workloadDistribution |->
     dashboard.workloadDistribution[m].metrics.assignedIssues]

\* what is kept of a returned dashboard when the next invocation starts
PreviousDashboard ==
  IF pc = "done"
    THEN <<[balanceScore |-> result[1].balanceScore,
            workloads |-> AssignedCounts(result[1])]>>
    ELSE prev

InitWorkload ==
  /\ clients = [github |-> FALSE, confluence |-> FALSE]
  /\ locals = <<>>
  /\ tracker = <<>>
  /\ pc = "idle"
  /\ args = <<>>
  /\ issues = <<>>
  /\ result = <<>>
  /\ prev = <<>>
  /\ calls = <<>>

\* generateWorkloadDashboard(projectKey, sprintId) up to its await
CallGenerateWorkloadDashboard ==
  /\ Idle
  /\ \E projectKey \in {<<>>, <<"OPS">>}, sprintId \in {<<>>, <<1>>} :
       /\ args' = [projectKey |-> projectKey, sprintId |-> sprintId]
       /\ calls' = <<[fn |-> "searchIssues", jql |-> WorkloadJql(projectKey, sprintId),
                      maxResults |-> 200]>>
  /\ pc' = "searchIssues"
  /\ prev' = PreviousDashboard
  /\ result' = <<>>
  /\ issues' = <<>>
  /\ UNCHANGED tracker
  /\ UNCHANGED <<clients, locals>>

\* searchIssues resolves with the issues the tracker holds at that moment
\* (assignments change between invocations, so replies differ): the dashboard is computed and
\* returned
WorkloadSearchReturns ==
  /\ pc = "searchIssues"
  /\ \E reply \in WorkloadCollections :
       /\ issues' = reply
       /\ result' = <<WorkloadDashboard(args.sprintId, reply)>>
  /\ pc' = "done"
  /\ UNCHANGED <<clients, tracker, args, locals, prev, calls>>

\* searchIssues rejects: the error leaves generateWorkloadDashboard
WorkloadSearchThrows ==
  /\ pc = "searchIssues"
  /\ pc' = "failed"
  /\ result' = <<>>
  /\ UNCHANGED <<tracker, args, issues, prev, calls>>
  /\ UNCHANGED <<clients, locals>>

NextWorkload ==
  \/ CallGenerateWorkloadDashboard
  \/ WorkloadSearchReturns
  \/ WorkloadSearchThrows

SpecWorkload == InitWorkload /\ [][NextWorkload]_vars

-----------------------------------------------------------------------------
(* Properties of generateWorkloadDashboard, checked under SpecWorkload *)

DashboardDone == pc = "done" /\ result # <<>>

\* n^2 times the population variance of the counts q: n * sum(w^2) - sum(w)^2
ScaledDeviation(q) == Len(q) * SumSquares(q) - SumSeq(q) * SumSeq(q)

\* the population standard deviation of the counts a is below that of b
\* (sqrt(Da)/na < sqrt(Db)/nb, squared and cross-multiplied; 0 for no counts)
SigmaBelow(a, b) ==
  LET na == IF Len(a) = 0 THEN 1 ELSE Len(a)
      nb == IF Len(b) = 0 THEN 1 ELSE Len(b)
  IN  ScaledDeviation(a) * nb * nb < ScaledDeviation(b) * na * na

\* C6: the returned balanceScore is in [0,100], is 100 when all members have
\* the same assigned-issue count (and when there are no members), and of two
\* dashboards the one with the smaller population standard deviation of the
\* assigned counts has the balanceScore that is at least as high.
C6_BalanceScoreMonotone ==
  DashboardDone =>
    LET r == result[1]
        w == AssignedCounts(r)
    IN  /\ r.balanceScore \in 0..100
        /\ (\A i, j \in DOMAIN w : w[i] = w[j]) => r.balanceScore = 100
        /\ prev # <<>> =>
             /\ SigmaBelow(prev[1].workloads, w) => prev[1].balanceScore >= r.balanceScore
             /\ SigmaBelow(w, prev[1].workloads) => r.balanceScore >= prev[1].balanceScore

\* two dashboards in a row, the second more dispersed and scored strictly
\* lower, down to the floor of the score
C6_Witness ==
  /\ DashboardDone
  /\ prev # <<>>
  /\ SigmaBelow(prev[1].workloads, AssignedCounts(result[1]))
  /\ prev[1].balanceScore = 100
  /\ result[1].balanceScore = 0

ReportTeam == <<14, 4, 3, 3, 3, 2, 1>>

\* the standard deviation of the counts q, rounded to two decimals, is
\* hundredths / 100
SigmaRoundsTo(q, hundredths) ==
  LET n == Len(q)
      lo == 2 * hundredths - 1
      hi == 2 * hundredths + 1
  IN  /\ lo * lo * n * n <= 40000 * ScaledDeviation(q)
      /\ 40000 * ScaledDeviation(q) < hi * hi * n * n

\* C7 as stated: for the 7 members with assigned counts [14,4,3,3,3,2,1] the
\* standard deviation is about 3.79 and the reported balanceScore is 62.
C7_Original ==
  (DashboardDone /\ AssignedCounts(result[1]) = ReportTeam) =>
    /\ SigmaRoundsTo(AssignedCounts(result[1]), 379)
    /\ result[1].balanceScore = 62

\* C7 (amended): for the 7 members with assigned counts [14,4,3,3,3,2,1] the
\* population standard deviation is about 4.06 and the reported balanceScore
\* is 59, the rounding of 100 - 10*sigma.
C7_ReportTeamBalance ==
  (DashboardDone /\ AssignedCounts(result[1]) = ReportTeam) =>
    /\ result[1].teamSize = 7
    /\ SigmaRoundsTo(AssignedCounts(result[1]), 406)
    /\ result[1].balanceScore = 59

\* the dashboard of the report team has been returned
C7_Witness == DashboardDone /\ AssignedCounts(result[1]) = ReportTeam

\* C8: each member's workloadStatus is decided by the assigned-issue count n
\* alone (n <= 2 underutilized, 3..5 optimal, 6..8 heavy, n >= 9 overloaded),
\* and the member carries the 'Has n assigned issues' risk factor exactly
\* when the status is overloaded.
C8_WorkloadStatusThresholds ==
  DashboardDone =>
    \A m \in DOMAIN result[1].workloadDistribution :
      LET w == result[1].workloadDistribution[m]
          n == w.metrics.assignedIssues
      IN  /\ w.workloadStatus = "underutilized" <=> n <= 2
          /\ w.workloadStatus = "optimal" <=> (3 <= n /\ n <= 5)
          /\ w.workloadStatus = "heavy" <=> (6 <= n /\ n <= 8)
          /\ w.workloadStatus = "overloaded" <=> n >= 9
          /\ arrayIncludes(w.riskFactors, <<"Has assigned issues", n>>)
               <=> w.workloadStatus = "overloaded"
          /\ \A k \in DOMAIN w.riskFactors :
               w.riskFactors[k][1] = "Has assigned issues" => w.riskFactors[k] = <<"Has assigned issues", n>>

\* a dashboard with members of exactly 2, 3, 8 and 9 assigned issues
C8_Witness ==
  /\ DashboardDone
  /\ \A n \in {2, 3, 8, 9} :
       \E m \in DOMAIN result[1].workloadDistribution :
         result[1].workloadDistribution[m].metrics.assignedIssues = n


\* the distinct assignee display names of a collection
AssigneeNames(iss) ==
  {iss[i].assignee[1] : i \in {j \in DOMAIN iss : iss[j].assignee # <<>>}}

\* C13: issues without an assignee are excluded from every figure: for any
\* fetched collection, also one containing unassigned issues, totalIssues
\* equals the sum of the members' assignedIssues, and teamSize equals the
\* number of distinct assignee display names.
C13_UnassignedExcluded ==
  DashboardDone =>
    /\ result[1].totalIssues = SumSeq(AssignedCounts(result[1]))
    /\ result[1].teamSize = Cardinality(AssigneeNames(issues))

\* the generic rebalancing recommendation is in the dashboard
RebalancingRecommended(dashboard) ==
  \E i \in DOMAIN dashboard.recommendations :
    dashboard.recommendations[i] =
      <<"Team workload is uneven - consider more balanced task distribution">>

\* the population standard deviation of the counts q is above 5
\* (n^2 * variance > 25 * n^2)
SigmaAboveFive(q) == ScaledDeviation(q) > 25 * Len(q) * Len(q)

\* C19 as stated: the generic rebalancing recommendation is present exactly
\* when the balanceScore reported in the same dashboard is below 50.
C19_Original ==
  DashboardDone =>
    (RebalancingRecommended(result[1]) <=> result[1].balanceScore < 50)

\* C19, amended: the generic rebalancing recommendation is present exactly
\* when the score before rounding is below 50, that is when the standard
\* deviation of the assigned counts is above 5; so it is present when the
\* reported (rounded) balanceScore is below 50, absent when it is above 50,
\* and at a reported 50 present or absent.
C19_RebalancingOnUnroundedScore ==
  DashboardDone =>
    LET r == result[1]
    IN  /\ RebalancingRecommended(r) <=> SigmaAboveFive(AssignedCounts(r))
        /\ r.balanceScore < 50 => RebalancingRecommended(r)
        /\ r.balanceScore > 50 => ~RebalancingRecommended(r)

\* a dashboard reporting 50 with the recommendation, after one reporting 50
\* without it
C19_Witness ==
  /\ DashboardDone
  /\ result[1].balanceScore = 50
  /\ RebalancingRecommended(result[1])
  /\ prev # <<>>
  /\ prev[1].balanceScore = 50
  /\ ~SigmaAboveFive(prev[1].workloads)
-----------------------------------------------------------------------------
(* Release notes generator *)

LABEL ==
  [breakingChange |-> <<"b","r","e","a","k","i","n","g","-","c","h","a","n","g","e">>,
   breaking |-> <<"b","r","e","a","k","i","n","g">>,
   deprecated |-> <<"d","e","p","r","e","c","a","t","e","d">>]

TYPE ==
  [bug |-> <<"b","u","g">>,
   defect |-> <<"d","e","f","e","c","t">>,
   story |-> <<"s","t","o","r","y">>,
   feature |-> <<"f","e","a","t","u","r","e">>,
   newFeature |-> <<"n","e","w"," ","f","e","a","t","u","r","e">>]
\* One issue as generateReleaseNotes reads it: key, type name, optional
\* labels, optional assignee and reporter display names
ReleaseIssue(key, shape) ==
  [key |-> key, issuetype |-> shape[1], labels |-> shape[2],
   assignee |-> IF key % 2 = 0 THEN <<MemberNames[1]>> ELSE <<>>,
   reporter |-> <<MemberNames[2]>>]

\* what searchIssues may return: at most MaxRelease issues of these shapes
ReleaseCollections ==
  {[i \in DOMAIN q |-> ReleaseIssue(i, q[i])] : q \in SeqsUpTo({ <<<<"B","u","g">>, <<>>>>, <<<<"D","e","f","e","c","t">>, << <<>> >>>>, <<<<"S","t","o","r","y">>, << <<<<"b","a","c","k","e","n","d">>>> >>>>, <<<<"F","E","A","T","U","R","E">>, << <<>> >>>>, <<<<"N","e","w"," ","F","e","a","t","u","r","e">>, <<>>>>, <<<<"T","a","s","k">>, << <<>> >>>>, <<<<"B","u","g">>, << <<<<"B","r","e","a","k","i","n","g">>>> >>>>, <<<<"S","t","o","r","y">>, << <<<<"u","i">>, <<"B","R","E","A","K","I","N","G","-","C","H","A","N","G","E">>>> >>>>, <<<<"b","u","g">>, << <<<<"D","e","p","r","e","c","a","t","e","d">>>> >>>>, <<<<"T","a","s","k">>, << <<<<"d","e","p","r","e","c","a","t","e","d">>, <<"b","r","e","a","k","i","n","g">>>> >>>>, <<<<"I","m","p","r","o","v","e","m","e","n","t">>, << <<<<"b","r","e","a","k","i","n","g","-","c","h","a","n","g","e","s">>>> >>>>, <<<<"E","p","i","c">>, <<>>>> }, MaxRelease)}

\* the options of a call: dates given or not, GitHub statistics asked or not
ReleaseOptions ==
  {[projectKey |-> "OPS", version |-> "2.0.0", startDate |-> d[1], endDate |-> d[2],
    jqlFilter |-> <<>>, includeGitHub |-> g] :
     d \in {<< <<>>, <<>> >>, << <<40>>, <<90>> >>},
     g \in {<<>>, <<[owner |-> "acme", repo |-> "hub", baseBranch |-> <<>>,
                     headBranch |-> <<>>]>>}}

\* endDate and startDate of the call (startDate defaults to 30 days before now)
EndDate(options, now) == IF options.endDate # <<>> THEN options.endDate[1] ELSE now
StartDate(options, now) ==
  IF options.startDate # <<>> THEN options.startDate[1] ELSE now - 30

\* the JQL of the primary fetch
ReleaseJql(options, now) ==
  IF options.jqlFilter # <<>> THEN options.jqlFilter
  ELSE <<"project = " \o options.projectKey, "status IN (Done, Closed, Resolved)",
         "resolved >= " \o ToString(StartDate(options, now)),
         "resolved <= " \o ToString(EndDate(options, now))>>

\* issue.fields.labels?.map(l => l.toLowerCase()) || []
LowerLabels(issue) ==
  IF issue.labels = <<>> THEN <<>>
  ELSE [i \in DOMAIN issue.labels[1] |-> toLowerCase(issue.labels[1][i])]

\* variant: the chain with the type tests before the label tests
CategoryOfTypeFirst(issue) ==
  LET type   == toLowerCase(issue.issuetype)
      labels == LowerLabels(issue)
  IN  IF type = TYPE.bug \/ type = TYPE.defect THEN "bugFixes"
      ELSE IF type = TYPE.story \/ type = TYPE.feature \/ type = TYPE.newFeature
        THEN "features"
      ELSE IF arrayIncludes(labels, LABEL.breakingChange)
                \/ arrayIncludes(labels, LABEL.breaking)
        THEN "breakingChanges"
      ELSE IF arrayIncludes(labels, LABEL.deprecated) THEN "deprecated"
      ELSE "improvements"

\* the categorisation chain of the loop body
CategoryOf(issue) ==
  LET type   == toLowerCase(issue.issuetype)
      labels == LowerLabels(issue)
  IN  IF arrayIncludes(labels, LABEL.breakingChange)
           \/ arrayIncludes(labels, LABEL.breaking)
        THEN "breakingChanges"
      ELSE IF arrayIncludes(labels, LABEL.deprecated) THEN "deprecated"
      ELSE IF type = TYPE.bug \/ type = TYPE.defect THEN "bugFixes"
      ELSE IF type = TYPE.story \/ type = TYPE.feature \/ type = TYPE.newFeature
        THEN "features"
      ELSE "improvements"

\* the loop `for (const issue of issues)`: the five lists of items (an item
\* is kept as the issue's key) and the contributors
RECURSIVE Categorize(_, _, _)
Categorize(iss, i, acc) ==
  IF i > Len(iss) THEN acc
  ELSE
    LET issue == iss[i]
        category == CategoryOf(issue)
    IN  Categorize(iss, i + 1,
          [categories |-> [acc.categories EXCEPT ![category] = Append(@, issue.key)],
           contributors |-> acc.contributors \cup Range(issue.assignee)
                              \cup Range(issue.reporter)])

NoGitStats == [totalPRs |-> 0, totalCommits |-> 0, filesChanged |-> 0]

\* prs.filter(...).length: merged, and merged between startDate and endDate
RecentPRs(prs, startDate, endDate) ==
  Len(SelectSeq(prs, LAMBDA pr : /\ pr.merged_at # <<>>
                                 /\ pr.merged_at[1] >= startDate
                                 /\ pr.merged_at[1] <= endDate))

\* the value generateReleaseNotes returns (the two rendered texts left out)
ReleaseNotes(options, now, iss, gitStats) ==
  LET sorted == Categorize(iss, 1,
                  [categories |-> [features |-> <<>>, improvements |-> <<>>,
                                   bugFixes |-> <<>>, breakingChanges |-> <<>>,
                                   deprecated |-> <<>>],
                   contributors |-> {}])
      categories == sorted.categories
      highlights ==
        (IF Len(categories.features) > 0
           THEN << <<"new feature(s) added", Len(categories.features)>>,
                   <<"top feature", categories.features[1]>> >>
           ELSE <<>>)
        \o (IF Len(categories.bugFixes) > 0
              THEN << <<"bug(s) fixed", Len(categories.bugFixes)>> >> ELSE <<>>)
        \o (IF Len(categories.breakingChanges) > 0
              THEN << <<"breaking change(s) - review before upgrading",
                        Len(categories.breakingChanges)>> >>
              ELSE <<>>)
  IN  [version |-> options.version,
       releaseDate |-> EndDate(options, now),
       summary |-> [changes |-> Len(iss), features |-> Len(categories.features),
                    improvements |-> Len(categories.improvements),
                    bugFixes |-> Len(categories.bugFixes)],
       highlights |-> highlights,
       categories |-> categories,
       contributors |-> sorted.contributors,
       stats |-> [totalIssues |-> Len(iss), totalPRs |-> gitStats.totalPRs,
                  totalCommits |-> gitStats.totalCommits,
                  filesChanged |-> gitStats.filesChanged]]

InitRelease ==
  /\ clients \in {[github |-> g, confluence |-> FALSE] : g \in BOOLEAN}
  /\ locals = <<>>
  /\ tracker = <<>>
  /\ pc = "idle"
  /\ args = <<>>
  /\ issues = <<>>
  /\ result = <<>>
  /\ prev = <<>>
  /\ calls = <<>>

\* generateReleaseNotes(options) up to its first await
CallGenerateReleaseNotes ==
  /\ Idle
  /\ \E options \in ReleaseOptions, now \in {100} :
       /\ args' = [options |-> options, now |-> now]
       /\ calls' = <<[fn |-> "searchIssues", jql |-> ReleaseJql(options, now),
                      maxResults |-> 200]>>
  /\ pc' = "searchIssues"
  /\ result' = <<>>
  /\ issues' = <<>>
  /\ locals' = <<>>
  /\ UNCHANGED <<clients, tracker, prev>>

\* searchIssues resolves: the issues are categorised; with a GitHub client
\* and the includeGitHub option the commit comparison is awaited next
ReleaseSearchReturns ==
  /\ pc = "searchIssues"
  /\ \E reply \in ReleaseCollections :
       /\ issues' = reply
       /\ IF clients.github /\ args.options.includeGitHub # <<>>
            THEN /\ pc' = "compareCommits"
                 /\ calls' = Append(calls, [fn |-> "compareCommits"])
                 /\ locals' = [gitStats |-> NoGitStats, prs |-> <<>>]
                 /\ result' = <<>>
            ELSE /\ pc' = "done"
                 /\ calls' = calls
                 /\ locals' = locals
                 /\ result' = <<ReleaseNotes(args.options, args.now, reply, NoGitStats)>>
  /\ UNCHANGED <<clients, tracker, args, prev>>

\* searchIssues rejects: the error leaves generateReleaseNotes
ReleaseSearchThrows ==
  /\ pc = "searchIssues"
  /\ pc' = "failed"
  /\ result' = <<>>
  /\ UNCHANGED <<clients, tracker, args, issues, locals, prev, calls>>

\* compareCommits resolves: two statistics are set, the pull requests are
\* awaited next
CompareCommitsReturns ==
  /\ pc = "compareCommits"
  /\ \E comparison \in {[total_commits |-> 0, files |-> 0], [total_commits |-> 3, files |-> 2]} :
       locals' = [locals EXCEPT
                    !.gitStats = [locals.gitStats EXCEPT
                                    !.totalCommits = comparison.total_commits,
                                    !.filesChanged = comparison.files]]
  /\ pc' = "getPullRequests"
  /\ calls' = Append(calls, [fn |-> "getPullRequests"])
  /\ UNCHANGED <<clients, tracker, args, issues, result, prev>>

\* compareCommits rejects: caught, the statistics stay as they are
CompareCommitsThrows ==
  /\ pc = "compareCommits"
  /\ pc' = "done"
  /\ result' = <<ReleaseNotes(args.options, args.now, issues, locals.gitStats)>>
  /\ UNCHANGED <<clients, tracker, args, issues, locals, prev, calls>>

\* getPullRequests resolves with `prs`: the merged pull requests of the period
\* are counted
GetPullRequestsReturns ==
  /\ pc = "getPullRequests"
  /\ \E prs \in { <<>>, <<[merged_at |-> <<>>], [merged_at |-> <<80>>], [merged_at |-> <<30>>], [merged_at |-> <<95>>]>> } :
       LET gitStats == [locals.gitStats EXCEPT
                          !.totalPRs = RecentPRs(prs, StartDate(args.options, args.now),
                                                 EndDate(args.options, args.now))]
       IN  /\ locals' = [gitStats |-> gitStats, prs |-> <<prs>>]
           /\ result' = <<ReleaseNotes(args.options, args.now, issues, gitStats)>>
  /\ pc' = "done"
  /\ UNCHANGED <<clients, tracker, args, issues, prev, calls>>

\* getPullRequests rejects: caught, the statistics stay as they are
GetPullRequestsThrows ==
  /\ pc = "getPullRequests"
  /\ pc' = "done"
  /\ result' = <<ReleaseNotes(args.options, args.now, issues, locals.gitStats)>>
  /\ UNCHANGED <<clients, tracker, args, issues, locals, prev, calls>>

NextRelease ==
  \/ CallGenerateReleaseNotes
  \/ ReleaseSearchReturns
  \/ ReleaseSearchThrows
  \/ CompareCommitsReturns
  \/ CompareCommitsThrows
  \/ GetPullRequestsReturns
  \/ GetPullRequestsThrows

SpecRelease == InitRelease /\ [][NextRelease]_vars

-----------------------------------------------------------------------------
(* Properties of generateReleaseNotes, checked under SpecRelease *)

ReleaseDone == pc = "done" /\ result # <<>>

\* the issue has a label equal, whatever the letter case, to one of `names`
HasLabelIn(issue, names) ==
  /\ issue.labels # <<>>
  /\ \E i \in DOMAIN issue.labels[1] : toLowerCase(issue.labels[1][i]) \in names

\* the category the claim gives an issue
ClaimedCategory(issue) ==
  LET type == toLowerCase(issue.issuetype)
  IN  CASE HasLabelIn(issue, {LABEL.breakingChange, LABEL.breaking}) -> "breakingChanges"
        [] ~HasLabelIn(issue, {LABEL.breakingChange, LABEL.breaking})
             /\ HasLabelIn(issue, {LABEL.deprecated}) -> "deprecated"
        [] ~HasLabelIn(issue, {LABEL.breakingChange, LABEL.breaking, LABEL.deprecated})
             /\ type \in {TYPE.bug, TYPE.defect} -> "bugFixes"
        [] ~HasLabelIn(issue, {LABEL.breakingChange, LABEL.breaking, LABEL.deprecated})
             /\ type \in {TYPE.story, TYPE.feature, TYPE.newFeature} -> "features"
        [] OTHER -> "improvements"

CategoryNames == {"features", "improvements", "bugFixes", "breakingChanges", "deprecated"}

\* C9: every fetched issue is placed in exactly one of the five categories,
\* the first that matches in the order breaking label, deprecated label,
\* bug/defect type, story/feature/new feature type, else improvements; the
\* five category sizes sum to stats.totalIssues, and a bug labelled breaking
\* appears only under breakingChanges.
C9_ReleaseCategoriesPartition ==
  ReleaseDone =>
    LET cats == result[1].categories
    IN  /\ \A i \in DOMAIN issues :
             \A c \in CategoryNames :
               Cardinality({k \in DOMAIN cats[c] : cats[c][k] = issues[i].key})
                 = IF c = ClaimedCategory(issues[i]) THEN 1 ELSE 0
        /\ Len(cats.features) + Len(cats.improvements) + Len(cats.bugFixes)
             + Len(cats.breakingChanges) + Len(cats.deprecated)
             = result[1].stats.totalIssues
        /\ result[1].stats.totalIssues = Len(issues)

\* release notes with a bug labelled Breaking, placed under breakingChanges
C9_Witness ==
  /\ ReleaseDone
  /\ \E i \in DOMAIN issues :
       /\ toLowerCase(issues[i].issuetype) = TYPE.bug
       /\ HasLabelIn(issues[i], {LABEL.breaking})
       /\ arrayIncludes(result[1].categories.breakingChanges, issues[i].key)
  /\ Len(issues) > 1

-----------------------------------------------------------------------------
(* The three operations with a primary issue fetch, side by side.  The
   methods of AIAnalytics keep no state between invocations, so a caller is
   modelled as using one of the three operations, chosen at its first
   call, again and again. *)

InitFetch ==
  /\ clients \in {[github |-> g, confluence |-> FALSE] : g \in BOOLEAN}
  /\ locals = <<>>
  \* an empty sprint, or one with an issue in each of done, in progress, to do
  /\ tracker \in {<<>>, CountedSprint(1, 1, 0, 1)}
  /\ pc = "idle"
  /\ args = <<>>
  /\ issues = <<>>
  /\ result = <<>>
  /\ prev = <<>>
  /\ calls = <<>>

\* the operation the caller uses, by the parameters of its invocations
Operation ==
  IF DOMAIN args = {"sprintId", "boardId"} THEN "analyzeSprintHealth"
  ELSE IF DOMAIN args = {"projectKey", "sprintId"} THEN "generateWorkloadDashboard"
  ELSE IF DOMAIN args = {"options", "now"} THEN "generateReleaseNotes"
  ELSE "none"

NextFetch ==
  \/ Operation \in {"none", "analyzeSprintHealth"} /\ NextSprint
  \/ Operation \in {"none", "generateWorkloadDashboard"} /\ NextWorkload
  \/ Operation \in {"none", "generateReleaseNotes"} /\ NextRelease

SpecFetch == InitFetch /\ [][NextFetch]_vars

\* the primary issue fetch of each operation
PrimaryFetch ==
  [analyzeSprintHealth |-> "getSprintIssues",
   generateWorkloadDashboard |-> "searchIssues",
   generateReleaseNotes |-> "searchIssues"]

\* C16: for analyzeSprintHealth, generateWorkloadDashboard and
\* generateReleaseNotes the primary issue fetch is the first collaborator
\* call and nothing else is called while it is pending; if it fails, the
\* operation fails, returns no result, and issues no further call: a
\* sprint-name lookup, a statistics fetch or a result exists only after the
\* fetch has delivered the issues.
C16_PrimaryFetchFirst ==
  Operation # "none" =>
    /\ calls # <<>>
    /\ calls[1].fn = PrimaryFetch[Operation]
    /\ pc = PrimaryFetch[Operation] => Len(calls) = 1 /\ result = <<>>
    /\ pc = "failed" => Len(calls) = 1 /\ result = <<>> /\ issues = <<>>
    /\ (Operation = "analyzeSprintHealth" /\ (Len(calls) > 1 \/ result # <<>>)) =>
         issues = tracker

\* the primary fetch of generateReleaseNotes has failed with a GitHub client
\* configured
C16_Witness ==
  /\ Operation = "generateReleaseNotes"
  /\ clients.github
  /\ args.options.includeGitHub # <<>>
  /\ pc = "failed"
  /\ Len(calls) = 1

LastCall == calls[Len(calls)].fn

\* the commit comparison was issued and threw
CompareCommitsThrew == LastCall = "compareCommits"

\* the pull-request list was requested and the request threw
GetPullRequestsThrew == LastCall = "getPullRequests" /\ locals.prs = <<>>

\* C17: whenever the source-control statistics are unavailable (no GitHub
\* client, no includeGitHub option, or either of the two GitHub calls
\* failing) generateReleaseNotes completes with totalPRs = 0, totalCommits =
\* 0 and filesChanged = 0.
C17_StatsZeroWhenUnavailable ==
  /\ pc # "failed" \/ Len(calls) = 1
  /\ ReleaseDone =>
       LET unavailable == \/ ~clients.github
                          \/ args.options.includeGitHub = <<>>
                          \/ CompareCommitsThrew
                          \/ GetPullRequestsThrew
       IN  unavailable =>
             /\ result[1].stats.totalPRs = 0
             /\ result[1].stats.totalCommits = 0
             /\ result[1].stats.filesChanged = 0
-----------------------------------------------------------------------------
(* Smart issue creator: the keyword tables of analyzeIssueText *)

\* the keyword lists of the issue types
typeKeywords ==
  [ bug |->
      << <<"b","u","g">>,
         <<"e","r","r","o","r">>,
         <<"c","r","a","s","h">>,
         <<"f","a","i","l">>,
         <<"b","r","o","k","e","n">>,
         <<"n","o","t"," ","w","o","r","k","i","n","g">>,
         <<"i","s","s","u","e">>,
         <<"p","r","o","b","l","e","m">>,
         <<"f","i","x">> >>,
    feature |->
      << <<"f","e","a","t","u","r","e">>,
         <<"a","d","d">>,
         <<"n","e","w">>,
         <<"i","m","p","l","e","m","e","n","t">>,
         <<"c","r","e","a","t","e">>,
         <<"d","e","v","e","l","o","p">>,
         <<"b","u","i","l","d">> >>,
    story |->
      << <<"a","s"," ","a"," ","u","s","e","r">>,
         <<"a","s"," ","a","n"," ","a","d","m","i","n">>,
         <<"i"," ","w","a","n","t">>,
         <<"s","o"," ","t","h","a","t">>,
         <<"u","s","e","r"," ","s","t","o","r","y">> >>,
    epic |->
      << <<"e","p","i","c">>,
         <<"i","n","i","t","i","a","t","i","v","e">>,
         <<"l","a","r","g","e">>,
         <<"m","u","l","t","i","p","l","e"," ","s","p","r","i","n","t","s">> >>,
    improvement |->
      << <<"i","m","p","r","o","v","e">>,
         <<"e","n","h","a","n","c","e">>,
         <<"o","p","t","i","m","i","z","e">>,
         <<"r","e","f","a","c","t","o","r">>,
         <<"p","e","r","f","o","r","m","a","n","c","e">> >> ]

\* urgentKeywords, highKeywords and lowKeywords
priorityKeywords ==
  [ urgent |->
      << <<"u","r","g","e","n","t">>,
         <<"c","r","i","t","i","c","a","l">>,
         <<"b","l","o","c","k","e","r">>,
         <<"a","s","a","p">>,
         <<"e","m","e","r","g","e","n","c","y">>,
         <<"p","r","o","d","u","c","t","i","o","n"," ","d","o","w","n">> >>,
    high |->
      << <<"h","i","g","h"," ","p","r","i","o","r","i","t","y">>,
         <<"i","m","p","o","r","t","a","n","t">>,
         <<"s","e","v","e","r","e">>,
         <<"m","a","j","o","r">> >>,
    low |->
      << <<"l","o","w"," ","p","r","i","o","r","i","t","y">>,
         <<"m","i","n","o","r">>,
         <<"n","i","c","e"," ","t","o"," ","h","a","v","e">>,
         <<"w","h","e","n"," ","p","o","s","s","i","b","l","e">> >> ]

\* labelPatterns, in the order of its entries: <<label, keywords>>
labelPatterns ==
  << <<"frontend",
       << <<"u","i">>,
          <<"f","r","o","n","t","e","n","d">>,
          <<"c","s","s">>,
          <<"r","e","a","c","t">>,
          <<"v","u","e">>,
          <<"a","n","g","u","l","a","r">>,
          <<"h","t","m","l">>,
          <<"b","u","t","t","o","n">>,
          <<"p","a","g","e">>,
          <<"c","o","m","p","o","n","e","n","t">> >> >>,
     <<"backend",
       << <<"a","p","i">>,
          <<"b","a","c","k","e","n","d">>,
          <<"s","e","r","v","e","r">>,
          <<"d","a","t","a","b","a","s","e">>,
          <<"e","n","d","p","o","i","n","t">>,
          <<"s","e","r","v","i","c","e">> >> >>,
     <<"infrastructure",
       << <<"d","e","p","l","o","y">>,
          <<"c","i">>,
          <<"c","d">>,
          <<"p","i","p","e","l","i","n","e">>,
          <<"d","o","c","k","e","r">>,
          <<"k","u","b","e","r","n","e","t","e","s">>,
          <<"a","w","s">>,
          <<"c","l","o","u","d">> >> >>,
     <<"security",
       << <<"s","e","c","u","r","i","t","y">>,
          <<"a","u","t","h">>,
          <<"p","e","r","m","i","s","s","i","o","n">>,
          <<"v","u","l","n","e","r","a","b","i","l","i","t","y">>,
          <<"s","s","l">>,
          <<"e","n","c","r","y","p","t","i","o","n">> >> >>,
     <<"performance",
       << <<"p","e","r","f","o","r","m","a","n","c","e">>,
          <<"s","l","o","w">>,
          <<"o","p","t","i","m","i","z","e">>,
          <<"s","p","e","e","d">>,
          <<"m","e","m","o","r","y">>,
          <<"c","p","u">> >> >>,
     <<"documentation",
       << <<"d","o","c">>,
          <<"r","e","a","d","m","e">>,
          <<"g","u","i","d","e">>,
          <<"t","u","t","o","r","i","a","l">> >> >>,
     <<"testing",
       << <<"t","e","s","t">>,
          <<"q","a">>,
          <<"a","u","t","o","m","a","t","i","o","n">>,
          <<"e","2","e">>,
          <<"u","n","i","t"," ","t","e","s","t">> >> >> >>

\* simpleIndicators, complexIndicators and hugeIndicators
complexityIndicators ==
  [ simple |->
      << <<"s","i","m","p","l","e">>,
         <<"e","a","s","y">>,
         <<"q","u","i","c","k">>,
         <<"s","m","a","l","l">>,
         <<"t","y","p","o">>,
         <<"c","o","n","f","i","g"," ","c","h","a","n","g","e">> >>,
    complex |->
      << <<"c","o","m","p","l","e","x">>,
         <<"l","a","r","g","e">>,
         <<"m","u","l","t","i","p","l","e">>,
         <<"r","e","f","a","c","t","o","r">>,
         <<"a","r","c","h","i","t","e","c","t","u","r","e">>,
         <<"r","e","w","r","i","t","e">> >>,
    huge |->
      << <<"e","n","t","i","r","e">>,
         <<"c","o","m","p","l","e","t","e"," ","o","v","e","r","h","a","u","l">>,
         <<"f","r","o","m"," ","s","c","r","a","t","c","h">>,
         <<"m","i","g","r","a","t","i","o","n">> >> ]

\* the words and word groups texts are made of, as typed
Vocabulary ==
  << <<"U","R","G","E","N","T">>,
     <<"b","u","g">>,
     <<"i","n">>,
     <<"l","o","g","i","n">>,
     <<"F","e","a","t","u","r","e">>,
     <<"L","a","r","g","e">>,
     <<"s","i","m","p","l","e">>,
     <<"M","i","n","o","r">>,
     <<"R","e","f","a","c","t","o","r">>,
     <<"A","P","I">>,
     <<"I"," ","w","a","n","t">> >>

UrgentBugInLogin == <<"U","R","G","E","N","T"," ","b","u","g"," ","i","n"," ","l","o","g","i","n">>

\* the smart issue creation example of the README
ReadmeSmartIssue ==
  <<"W","e"," ","n","e","e","d"," ","t","o"," ","f","i","x"," ","t","h","e",
    " ","l","o","g","i","n"," ","p","a","g","e"," ","t","h","a","t"," ","c",
    "r","a","s","h","e","s"," ","w","h","e","n"," ","u","s","e","r","s"," ",
    "e","n","t","e","r"," ","s","p","e","c","i","a","l"," ","c","h","a","r",
    "a","c","t","e","r","s"," ","i","n"," ","t","h","e"," ","p","a","s","s",
    "w","o","r","d"," ","f","i","e","l","d","."," ","T","h","i","s"," ","i",
    "s"," ","u","r","g","e","n","t"," ","a","n","d"," ","a","f","f","e","c",
    "t","i","n","g"," ","p","r","o","d","u","c","t","i","o","n"," ","u","s",
    "e","r","s",".">>

\* the texts of a caller: up to MaxWords words of the vocabulary separated by
\* single spaces, and three texts of the documentation
RECURSIVE JoinWords(_, _)
JoinWords(ws, sep) ==
  IF ws = <<>> THEN <<>>
  ELSE IF Len(ws) = 1 THEN ws[1]
  ELSE ws[1] \o sep \o JoinWords(Tail(ws), sep)

Phrases ==
  {JoinWords(q, <<" ">>) : q \in SeqsUpTo(Range(Vocabulary), MaxWords)}
    \cup {UrgentBugInLogin, <<"U","R","G","E","N","T",":"," ","p","r","o","d","u","c","t","i","o","n"," ","d","a","t","a","b","a","s","e"," ","c","o","n","n","e","c","t","i","o","n"," ","p","o","o","l","i","n","g"," ","i","s"," ","b","r","o","k","e","n",","," ","c","a","u","s","i","n","g"," ","c","r","a","s","h","e","s">>, ReadmeSmartIssue}
    \* texts with indicators of several sizes, and with other whitespace
    \cup { <<"s","i","m","p","l","e"," ","m","i","g","r","a","t","i","o","n",
             " ","o","f"," ","c","o","m","p","l","e","x"," ","c","o","d","e">>,
           <<"L","a","r","g","e"," ","m","i","g","r","a","t","i","o","n">>,
           <<" ","q","u","i","c","k","\t","t","y","p","o"," "," ","f","i","x",
             "e","s","\n","t","o","d","a","y"," ","p","l","e","a","s","e"," ">> }

toUpperCaseChar(c) ==
  IF \E i \in DOMAIN LowerCaseLetters : LowerCaseLetters[i] = c
  THEN UpperCaseLetters[CHOOSE i \in DOMAIN LowerCaseLetters : LowerCaseLetters[i] = c]
  ELSE c

Typed(phrase, casing) ==
  IF casing = "capitals" THEN [i \in DOMAIN phrase |-> toUpperCaseChar(phrase[i])]
  ELSE IF casing = "small" THEN [i \in DOMAIN phrase |-> toLowerCaseChar(phrase[i])]
  ELSE phrase

\* keywords.some(k => textLower.includes(k))
SomeIncluded(keywords, textLower) ==
  \E i \in DOMAIN keywords : includes(textLower, keywords[i])

\* variant: the chain with the bug test first
SuggestedTypeBugFirst(textLower) ==
  IF SomeIncluded(typeKeywords.bug, textLower) THEN "Bug"
  ELSE IF SomeIncluded(typeKeywords.epic, textLower) THEN "Epic"
  ELSE IF SomeIncluded(typeKeywords.story, textLower) THEN "Story"
  ELSE IF SomeIncluded(typeKeywords.feature, textLower) THEN "Story"
  ELSE IF SomeIncluded(typeKeywords.improvement, textLower) THEN "Improvement"
  ELSE "Task"

\* the suggestedType chain
SuggestedType(textLower) ==
  IF SomeIncluded(typeKeywords.epic, textLower) THEN "Epic"
  ELSE IF SomeIncluded(typeKeywords.story, textLower) THEN "Story"
  ELSE IF SomeIncluded(typeKeywords.bug, textLower) THEN "Bug"
  ELSE IF SomeIncluded(typeKeywords.feature, textLower) THEN "Story"
  ELSE IF SomeIncluded(typeKeywords.improvement, textLower) THEN "Improvement"
  ELSE "Task"

\* the suggestedPriority chain
SuggestedPriority(textLower) ==
  IF SomeIncluded(priorityKeywords.urgent, textLower) THEN "Critical"
  ELSE IF SomeIncluded(priorityKeywords.high, textLower) THEN "High"
  ELSE IF SomeIncluded(priorityKeywords.low, textLower) THEN "Low"
  ELSE "Medium"

\* the loop over Object.entries(labelPatterns)
SuggestedLabels(textLower) ==
  LET hits == SelectSeq(labelPatterns, LAMBDA e : SomeIncluded(e[2], textLower))
  IN  [i \in DOMAIN hits |-> hits[i][1]]

\* variant: the chain with the simple indicators tested before the complex
EstimatedStoryPointsSimpleFirst(textLower) ==
  IF SomeIncluded(complexityIndicators.huge, textLower) THEN 13
  ELSE IF SomeIncluded(complexityIndicators.simple, textLower) THEN 1
  ELSE IF SomeIncluded(complexityIndicators.complex, textLower) THEN 8
  ELSE 3

\* the estimatedStoryPoints chain
EstimatedStoryPoints(textLower) ==
  IF SomeIncluded(complexityIndicators.huge, textLower) THEN 13
  ELSE IF SomeIncluded(complexityIndicators.complex, textLower) THEN 8
  ELSE IF SomeIncluded(complexityIndicators.simple, textLower) THEN 1
  ELSE 3

IsWhitespace(c) == c \in {" ", "\t", "\n"}

\* text.split(/\s+/): the pieces between runs of whitespace, in order; a
\* piece is empty only at a whitespace end of the text (and for the empty
\* text, whose only piece is empty)
SplitWhitespace(text) ==
  LET n == Len(text)
      starts == {i \in 1..n : /\ ~IsWhitespace(text[i])
                              /\ (i = 1 \/ IsWhitespace(text[i - 1]))}
      StartOf(k) == CHOOSE i \in starts : Cardinality({j \in starts : j <= i}) = k
      EndOf(s) == CHOOSE e \in s..n :
                    /\ \A j \in s..e : ~IsWhitespace(text[j])
                    /\ (e = n \/ IsWhitespace(text[e + 1]))
      words == [k \in 1..Cardinality(starts) |-> SubSeq(text, StartOf(k), EndOf(StartOf(k)))]
  IN  (IF n = 0 \/ IsWhitespace(text[1]) THEN << <<>> >> ELSE <<>>)
        \o words
        \o (IF n > 0 /\ IsWhitespace(text[n]) THEN << <<>> >> ELSE <<>>)

\* variant: the words of 4 characters pass the filter too
SearchTermsFromFour(text) ==
  LET words == SelectSeq(SplitWhitespace(text), LAMBDA w : Len(w) >= 4)
  IN  JoinWords(SubSeq(words, 1, MathMin(3, Len(words))), <<" ","O","R"," ">>)

\* searchTerms: the first three words longer than 4 characters, joined
SearchTerms(text) ==
  LET words == SelectSeq(SplitWhitespace(text), LAMBDA w : Len(w) > 4)
  IN  JoinWords(SubSeq(words, 1, MathMin(3, Len(words))), <<" ","O","R"," ">>)

\* variant: the priority keywords matched against the text as typed
ClassifyAsTyped(text) ==
  [suggestedType |-> SuggestedType(toLowerCase(text)),
   suggestedPriority |-> SuggestedPriority(text),
   suggestedLabels |-> SuggestedLabels(toLowerCase(text)),
   estimatedStoryPoints |-> EstimatedStoryPoints(toLowerCase(text))]

\* analyzeIssueText up to the search: the four suggestions from textLower
Classify(text) ==
  LET textLower == toLowerCase(text)
  IN  [suggestedType |-> SuggestedType(textLower),
       suggestedPriority |-> SuggestedPriority(textLower),
       suggestedLabels |-> SuggestedLabels(textLower),
       estimatedStoryPoints |-> EstimatedStoryPoints(textLower)]

\* the suggestions list and the returned analysis
IssueAnalysis(text, classified, similarKeys) ==
  LET textLower == toLowerCase(text)
      suggestions ==
        (IF Len(text) < 50
           THEN << <<"Consider adding more detail to the description">> >> ELSE <<>>)
        \o (IF classified.suggestedType = "Bug" /\ ~includes(textLower, <<"r","e","p","r","o","d","u","c","e">>)
              THEN << <<"Add steps to reproduce the bug">> >> ELSE <<>>)
        \o (IF classified.suggestedType = "Story" /\ ~includes(textLower, <<"a","c","c","e","p","t","a","n","c","e">>)
              THEN << <<"Consider adding acceptance criteria">> >> ELSE <<>>)
        \o (IF Len(similarKeys) > 0
              THEN << <<"potentially related issue(s) - check for duplicates",
                        Len(similarKeys)>> >>
              ELSE <<>>)
  IN  [suggestedType |-> classified.suggestedType,
       suggestedPriority |-> classified.suggestedPriority,
       suggestedLabels |-> classified.suggestedLabels,
       suggestedComponents |-> <<>>,
       estimatedStoryPoints |-> classified.estimatedStoryPoints,
       \* similarity 0.7, in tenths
       similarIssues |-> [i \in DOMAIN similarKeys |->
                            [key |-> similarKeys[i], similarity |-> 7]],
       suggestions |-> suggestions]

\* what is kept of a returned analysis, with its text, when the next
\* invocation starts
PreviousAnalysis ==
  IF pc = "done"
    THEN <<[text |-> args.text,
            suggestedType |-> result[1].suggestedType,
            suggestedPriority |-> result[1].suggestedPriority,
            suggestedLabels |-> result[1].suggestedLabels,
            estimatedStoryPoints |-> result[1].estimatedStoryPoints,
            similarIssues |-> result[1].similarIssues]>>
    ELSE prev

\* the caller has one phrase in mind, args.phrase, and types it in some
\* casing at each call
InitText ==
  /\ clients = [github |-> FALSE, confluence |-> FALSE]
  /\ tracker = <<>>
  /\ pc = "idle"
  /\ args \in {[phrase |-> p] : p \in Phrases}
  /\ issues = <<>>
  /\ locals = <<>>
  /\ result = <<>>
  /\ prev = <<>>
  /\ calls = <<>>

\* analyzeIssueText(text, projectKey) up to its await: the text is the
\* caller's phrase in some casing; the suggestions are computed, and the
\* search is issued when there are search terms
CallAnalyzeIssueText ==
  /\ Idle
  /\ \E casing \in {"asTyped", "capitals", "small"}, projectKey \in {"OPS"} :
       LET text == Typed(args.phrase, casing)
           classified == Classify(text)
           searchTerms == SearchTerms(text)
       IN  /\ args' = [phrase |-> args.phrase, text |-> text, projectKey |-> projectKey]
           /\ locals' = [classified |-> classified, searchResult |-> <<>>]
           /\ IF searchTerms # <<>>
                THEN /\ pc' = "searchIssues"
                     /\ calls' = <<[fn |-> "searchIssues", project |-> projectKey,
                                    text |-> searchTerms, maxResults |-> 5]>>
                     /\ result' = <<>>
                ELSE /\ pc' = "done"
                     /\ calls' = <<>>
                     /\ result' = <<IssueAnalysis(text, classified, <<>>)>>
  /\ prev' = PreviousAnalysis
  /\ issues' = <<>>
  /\ UNCHANGED <<clients, tracker>>

\* the similar-issue search resolves, its reply kept in `searchResult`
TextSearchReturns ==
  /\ pc = "searchIssues"
  /\ \E reply \in {<<>>, <<11, 12>>} :
       /\ issues' = reply
       /\ locals' = [locals EXCEPT !.searchResult = <<reply>>]
       /\ result' = <<IssueAnalysis(args.text, locals.classified, reply)>>
  /\ pc' = "done"
  /\ UNCHANGED <<clients, tracker, args, prev, calls>>

\* variant: the error of the similar-issue search leaves analyzeIssueText
TextSearchThrowsUncaught ==
  /\ pc = "searchIssues"
  /\ result' = <<>>
  /\ pc' = "failed"
  /\ UNCHANGED <<clients, tracker, args, issues, locals, prev, calls>>

\* the similar-issue search rejects: caught, no similar issues
TextSearchThrows ==
  /\ pc = "searchIssues"
  /\ result' = <<IssueAnalysis(args.text, locals.classified, <<>>)>>
  /\ pc' = "done"
  /\ UNCHANGED <<clients, tracker, args, issues, locals, prev, calls>>

NextText ==
  \/ CallAnalyzeIssueText
  \/ TextSearchReturns
  \/ TextSearchThrows

SpecText == InitText /\ [][NextText]_vars

-----------------------------------------------------------------------------
(* Properties of analyzeIssueText, checked under SpecText *)

TextDone == pc = "done" /\ result # <<>>

\* two texts that differ at most in the case of their letters
DiffersOnlyInCase(a, b) ==
  /\ Len(a) = Len(b)
  /\ \A i \in DOMAIN a :
       \/ a[i] = b[i]
       \/ a[i] = toUpperCaseChar(b[i])
       \/ b[i] = toUpperCaseChar(a[i])

\* C10: for two input texts that differ only in letter case, whatever the
\* search does, suggestedType, suggestedPriority, suggestedLabels and
\* estimatedStoryPoints are identical; 'URGENT bug in login' and 'urgent bug
\* in login' both yield Bug and Critical.
C10_CaseInsensitive ==
  TextDone =>
    /\ (prev # <<>> /\ DiffersOnlyInCase(prev[1].text, args.text)) =>
         /\ result[1].suggestedType = prev[1].suggestedType
         /\ result[1].suggestedPriority = prev[1].suggestedPriority
         /\ result[1].suggestedLabels = prev[1].suggestedLabels
         /\ result[1].estimatedStoryPoints = prev[1].estimatedStoryPoints
    /\ args.text \in {UrgentBugInLogin, Typed(UrgentBugInLogin, "small")} =>
         /\ result[1].suggestedType = "Bug"
         /\ result[1].suggestedPriority = "Critical"

\* 'urgent bug in login' analysed right after 'URGENT bug in login'
C10_Witness ==
  /\ TextDone
  /\ prev # <<>>
  /\ prev[1].text = UrgentBugInLogin
  /\ args.text = Typed(UrgentBugInLogin, "small")
  /\ args.text # prev[1].text
  /\ result[1].suggestedPriority = "Critical"


\* the keyword sets in the order of the claim, each with the type it gives
TypeOrder ==
  << <<typeKeywords.epic, "Epic">>,
     <<typeKeywords.story, "Story">>,
     <<typeKeywords.bug, "Bug">>,
     <<typeKeywords.feature, "Story">>,
     <<typeKeywords.improvement, "Improvement">> >>

\* the positions in TypeOrder of the sets with a substring match in the text
MatchingSets(text) ==
  {i \in DOMAIN TypeOrder : SomeIncluded(TypeOrder[i][1], toLowerCase(text))}

MatchesSet(text, keywords) == SomeIncluded(keywords, toLowerCase(text))

\* C11: suggestedType is the type of the first keyword set, in the order
\* epic, story, bug, feature, improvement, that has a substring match, and
\* Task when no set matches; a text matching a bug and a feature keyword is
\* Bug, a text matching an epic and a bug keyword is Epic.
C11_FirstMatchingSetWins ==
  TextDone =>
    LET hits == MatchingSets(args.text)
        type == result[1].suggestedType
    IN  /\ hits = {} => type = "Task"
        /\ hits # {} =>
             type = TypeOrder[CHOOSE i \in hits : \A j \in hits : i <= j][2]
        /\ (MatchesSet(args.text, typeKeywords.bug)
              /\ MatchesSet(args.text, typeKeywords.feature)
              /\ ~MatchesSet(args.text, typeKeywords.epic)
              /\ ~MatchesSet(args.text, typeKeywords.story)) => type = "Bug"
        /\ MatchesSet(args.text, typeKeywords.epic) => type = "Epic"

\* a text with an epic keyword and a bug keyword, and no story keyword, has
\* been analysed
C11_Witness ==
  /\ TextDone
  /\ MatchesSet(args.text, typeKeywords.epic)
  /\ MatchesSet(args.text, typeKeywords.bug)
  /\ ~MatchesSet(args.text, typeKeywords.story)
  /\ result[1].suggestedType = "Epic"

\* C12: for the smart issue creation example of the README, analyzeIssueText
\* returns suggestedType Bug, suggestedPriority Critical and suggestedLabels
\* exactly frontend and security.
C12_ReadmeExample ==
  (TextDone /\ args.text = ReadmeSmartIssue) =>
    /\ result[1].suggestedType = "Bug"
    /\ result[1].suggestedPriority = "Critical"
    /\ Range(result[1].suggestedLabels) = {"frontend", "security"}

\* the similar-issue search was issued and threw
SearchThrew == calls # <<>> /\ locals.searchResult = <<>>

IsRelatedSuggestion(s) == s[1] = "potentially related issue(s) - check for duplicates"

\* C15: a failure of the similar-issue search never propagates: the operation
\* completes with similarIssues empty, no 'potentially related issue(s)'
\* suggestion, and the suggestedType, suggestedPriority, suggestedLabels and
\* estimatedStoryPoints of a run on the same text where the search succeeded.
C15_SearchFailureAbsorbed ==
  /\ pc # "failed"
  /\ (TextDone /\ SearchThrew) =>
       LET r == result[1]
       IN  /\ r.similarIssues = <<>>
           /\ \A i \in DOMAIN r.suggestions : ~IsRelatedSuggestion(r.suggestions[i])
           /\ (prev # <<>> /\ prev[1].text = args.text) =>
                /\ r.suggestedType = prev[1].suggestedType
                /\ r.suggestedPriority = prev[1].suggestedPriority
                /\ r.suggestedLabels = prev[1].suggestedLabels
                /\ r.estimatedStoryPoints = prev[1].estimatedStoryPoints

\* a run whose search threw has completed after a run on the same text whose
\* search found issues
C15_Witness ==
  /\ TextDone
  /\ SearchThrew
  /\ prev # <<>>
  /\ prev[1].text = args.text
  /\ prev[1].similarIssues # <<>>
  /\ result[1].similarIssues = <<>>
  /\ result[1].suggestedType = "Bug"
\* the lower-cased text contains one of the indicators
HasIndicator(indicators) ==
  \E i \in DOMAIN indicators : includes(toLowerCase(args.text), indicators[i])

\* the scale and the first-match order of the story points, and the type and
\* points of a text containing 'large'
StoryPointChain ==
  LET points == result[1].estimatedStoryPoints
  IN  /\ points \in {1, 3, 8, 13}
      /\ points = IF HasIndicator(complexityIndicators.huge) THEN 13
                  ELSE IF HasIndicator(complexityIndicators.complex) THEN 8
                  ELSE IF HasIndicator(complexityIndicators.simple) THEN 1
                  ELSE 3
      /\ includes(toLowerCase(args.text), <<"l","a","r","g","e">>) =>
           /\ result[1].suggestedType = "Epic"
           /\ points \in {8, 13}

\* C22 as stated: estimatedStoryPoints is one of {1, 3, 8, 13}, decided by
\* first match in the order huge -> 13, complex -> 8, simple -> 1, default 3;
\* a text with both a simple and a complex indicator gets 8, and any text
\* containing 'large' is typed Epic and estimated at 8 or 13.
C22_Original ==
  TextDone =>
    /\ StoryPointChain
    /\ HasIndicator(complexityIndicators.simple) /\ HasIndicator(complexityIndicators.complex) =>
         result[1].estimatedStoryPoints = 8

\* C22: estimatedStoryPoints is one of {1, 3, 8, 13}, decided by first match
\* in the order huge -> 13, complex -> 8, simple -> 1, default 3; a text with
\* both a simple and a complex indicator gets 8 when it has no huge indicator
\* and 13 when it has one, and any text containing 'large' is typed Epic and
\* estimated at 8 or 13.
C22_StoryPoints ==
  TextDone =>
    /\ StoryPointChain
    /\ HasIndicator(complexityIndicators.simple) /\ HasIndicator(complexityIndicators.complex) =>
         result[1].estimatedStoryPoints =
           IF HasIndicator(complexityIndicators.huge) THEN 13 ELSE 8

\* a text with a simple and a complex indicator and no huge one has been
\* analysed and estimated at 8
C22_Witness ==
  /\ TextDone
  /\ HasIndicator(complexityIndicators.simple)
  /\ HasIndicator(complexityIndicators.complex)
  /\ ~HasIndicator(complexityIndicators.huge)
  /\ result[1].estimatedStoryPoints = 8

\* the places <<s, e>> of the words of the text longer than 4 characters: the
\* maximal runs of characters that are not whitespace
LongWordPlaces(text) ==
  LET n == Len(text)
  IN  {w \in (1..n) \X (1..n) :
         /\ w[2] - w[1] + 1 > 4
         /\ \A j \in w[1]..w[2] : text[j] \notin {" ", "\t", "\n"}
         /\ (w[1] = 1 \/ text[w[1] - 1] \in {" ", "\t", "\n"})
         /\ (w[2] = n \/ text[w[2] + 1] \in {" ", "\t", "\n"})}

\* the first (at most 3) long words in input order, joined with ' OR '
FirstLongWords(text) ==
  LET places == LongWordPlaces(text)
      Rank(w) == Cardinality({v \in places : v[1] <= w[1]})
      count == MathMin(3, Cardinality(places))
      Place(k) == CHOOSE w \in places : Rank(w) = k
  IN  JoinWords([k \in 1..count |-> SubSeq(text, Place(k)[1], Place(k)[2])],
                <<" ", "O", "R", " ">>)

\* C23: analyzeIssueText issues at most one search per invocation; the search
\* terms are the first (at most 3) whitespace-separated words of the input
\* text longer than 4 characters, in input order, joined with ' OR '; when
\* the text has no such word no search is issued and similarIssues is empty.
C23_SearchTerms ==
  pc \in {"searchIssues", "done"} =>
    /\ Len(calls) <= 1
    /\ \A i \in DOMAIN calls :
         /\ calls[i].fn = "searchIssues"
         /\ calls[i].text = FirstLongWords(args.text)
    /\ calls = <<>> <=> LongWordPlaces(args.text) = {}
    /\ (TextDone /\ LongWordPlaces(args.text) = {}) => result[1].similarIssues = <<>>

\* a text of four long words between spaces, a tab and a line break has been
\* analysed with one search for its first three long words
C23_Witness ==
  /\ TextDone
  /\ Cardinality(LongWordPlaces(args.text)) = 4
  /\ Len(calls) = 1
  /\ calls[1].text = <<"q","u","i","c","k"," ","O","R"," ","f","i","x","e","s",
                       " ","O","R"," ","t","o","d","a","y">>
  /\ result[1].similarIssues # <<>>

-----------------------------------------------------------------------------
(* The save_sprint_report tool: analyzeSprintHealth, then the report of
   DocsGenerator.generateSprintReport, saved to GitHub or to a local file *)

\* new Date().toISOString().split('T')[0]
Today == "2024-06-03"

\* `${Math.round((count / total) * 100)}%` as the report shows it: 0 / 0 is
\* NaN and a positive count over 0 is Infinity, and Math.round keeps both
PercentageCell(count, total) ==
  IF total = 0
    THEN IF count = 0 THEN "NaN%" ELSE "Infinity%"
    ELSE ToString(MathRound(100 * count, total)) \o "%"

\* DocsGenerator.generateSprintReport: the document, its content cell by cell
generateSprintReport(data) ==
  LET bd == data.issueBreakdown
      Row(name, count) ==
        [status |-> name, count |-> count, percentage |-> PercentageCell(count, bd.total)]
  IN  [title |-> <<"Sprint Report - ", data.sprintName>>,
       filename |-> <<"sprint-report-", data.sprintId, Today>>,
       content |->
         [sprintName |-> data.sprintName,
          generated |-> Today,
          sprintId |-> data.sprintId,
          healthScore |-> data.healthScore,
          status |-> [s \in {"excellent", "good", "at-risk", "critical"} |-> CASE s = "excellent" -> "EXCELLENT" [] s = "good" -> "GOOD" [] s = "at-risk" -> "AT-RISK" [] s = "critical" -> "CRITICAL"][data.healthStatus],
          completionRate |-> ToString(data.completionRate) \o "%",
          breakdown |-> << Row("Done", bd.done), Row("In Progress", bd.inProgress),
                          Row("To Do", bd.todo), Row("Blocked", bd.blocked) >>,
          total |-> bd.total,
          risks |-> IF Len(data.risks) > 0 THEN data.risks
                    ELSE << <<"_No risks identified_">> >>,
          recommendations |-> data.recommendations],
       format |-> "markdown"]

InitSprintReport ==
  /\ clients \in {[github |-> g, confluence |-> FALSE] : g \in BOOLEAN}
  /\ locals = <<>>
  \* sprints of at most one issue of each bucket, and of at most one issue
  \* with or without assignee and priority
  /\ tracker \in {CountedSprint(d, p, b, t) :
                    d \in 0..1, p \in 0..1, b \in 0..1, t \in 0..1}
                 \cup {q \in ShortSprints : Len(q) <= 1}
  /\ pc = "idle"
  /\ args = <<>>
  /\ issues = <<>>
  /\ result = <<>>
  /\ prev = <<>>
  /\ calls = <<>>

\* a save_sprint_report request arrives: the handler reads its arguments and
\* awaits analyzeSprintHealth(sprintId, boardId), which awaits the issue fetch
CallSaveSprintReport ==
  /\ pc \in {"idle", "responded"}
  /\ \E sprintId \in SprintIds, boardId \in BoardIds, target \in { [saveToGitHub |-> FALSE, githubOwner |-> <<>>, githubRepo |-> <<>>], [saveToGitHub |-> TRUE, githubOwner |-> <<"acme">>, githubRepo |-> <<"hub">>], [saveToGitHub |-> TRUE, githubOwner |-> <<>>, githubRepo |-> <<"hub">>] } :
       args' = [sprintId |-> sprintId, boardId |-> boardId,
                saveToGitHub |-> target.saveToGitHub,
                githubOwner |-> target.githubOwner,
                githubRepo |-> target.githubRepo]
  /\ pc' = "getSprintIssues"
  /\ calls' = <<[fn |-> "getSprintIssues"]>>
  /\ result' = <<>>
  /\ issues' = <<>>
  /\ locals' = <<>>
  /\ UNCHANGED <<clients, tracker, prev>>

\* analyzeSprintHealth has returned: the report is generated and the save
\* begins, to GitHub when asked for with owner, repo and a GitHub client,
\* else to the output directory, created first when it does not exist
SprintReportGenerated ==
  /\ pc = "done"
  /\ LET health == result[1]
         doc == generateSprintReport(
                  [sprintName |-> health.sprintName,
                   sprintId |-> health.sprintId,
                   healthScore |-> health.healthScore,
                   healthStatus |-> health.healthStatus,
                   completionRate |-> health.metrics.completionRate,
                   issueBreakdown |-> health.issueBreakdown,
                   risks |-> health.risks,
                   recommendations |-> health.recommendations])
     IN  /\ locals' = <<[health |-> health, doc |-> doc]>>
         /\ IF /\ args.saveToGitHub
               /\ args.githubOwner # <<>>
               /\ args.githubRepo # <<>>
               /\ clients.github
              THEN /\ pc' = "getFileContent"
                   /\ calls' = Append(calls, [fn |-> "getFileContent"])
              ELSE \E outputDirExists \in BOOLEAN :
                     IF outputDirExists
                       THEN /\ pc' = "writeFile"
                            /\ calls' = Append(calls, [fn |-> "writeFile",
                                                       content |-> doc.content])
                       ELSE /\ pc' = "mkdir"
                            /\ calls' = Append(calls, [fn |-> "mkdir"])
  /\ result' = <<>>
  /\ UNCHANGED <<clients, tracker, args, issues, prev>>

\* saveToGitHub: the file exists, its sha goes into the PUT
GetFileContentReturns ==
  /\ pc = "getFileContent"
  /\ pc' = "putContents"
  /\ calls' = Append(calls, [fn |-> "fetch", method |-> "PUT", sha |-> <<"sha">>,
                             content |-> locals[1].doc.content])
  /\ UNCHANGED <<clients, tracker, args, issues, locals, result, prev>>

\* saveToGitHub: the file does not exist (caught), the PUT creates it
GetFileContentThrows ==
  /\ pc = "getFileContent"
  /\ pc' = "putContents"
  /\ calls' = Append(calls, [fn |-> "fetch", method |-> "PUT", sha |-> <<>>,
                             content |-> locals[1].doc.content])
  /\ UNCHANGED <<clients, tracker, args, issues, locals, result, prev>>

\* the PUT succeeds: the handler answers with the URL
PutContentsOk ==
  /\ pc = "putContents"
  /\ pc' = "responded"
  /\ result' = <<[isError |-> FALSE,
                  text |-> <<"Sprint report saved to GitHub!", locals[1].doc.title>>]>>
  /\ UNCHANGED <<clients, tracker, args, issues, locals, prev, calls>>

\* saveToLocal: the output directory is created, the file is written next
MkdirReturns ==
  /\ pc = "mkdir"
  /\ pc' = "writeFile"
  /\ calls' = Append(calls, [fn |-> "writeFile", content |-> locals[1].doc.content])
  /\ UNCHANGED <<clients, tracker, args, issues, locals, result, prev>>

\* the file is written: the handler answers with the file path
WriteFileReturns ==
  /\ pc = "writeFile"
  /\ pc' = "responded"
  /\ result' = <<[isError |-> FALSE,
                  text |-> <<"Sprint report saved locally!", locals[1].doc.title>>]>>
  /\ UNCHANGED <<clients, tracker, args, issues, locals, prev, calls>>

\* the save throws: the PUT is rejected or its response is not ok, or mkdir
\* or writeFile rejects
SaveThrows ==
  /\ pc \in {"putContents", "mkdir", "writeFile"}
  /\ pc' = "failed"
  /\ UNCHANGED <<clients, tracker, args, issues, locals, result, prev, calls>>

\* the catch of the handler: any error becomes an error response
HandlerCatches ==
  /\ pc = "failed"
  /\ pc' = "responded"
  /\ result' = <<[isError |-> TRUE, text |-> <<"Error">>]>>
  /\ UNCHANGED <<clients, tracker, args, issues, locals, prev, calls>>

NextSprintReport ==
  \/ CallSaveSprintReport
  \/ GetSprintIssuesReturns
  \/ GetSprintIssuesThrows
  \/ GetSprintsReturns
  \/ GetSprintsThrows
  \/ SprintReportGenerated
  \/ GetFileContentReturns
  \/ GetFileContentThrows
  \/ PutContentsOk
  \/ MkdirReturns
  \/ WriteFileReturns
  \/ SaveThrows
  \/ HandlerCatches

SpecSprintReport == InitSprintReport /\ [][NextSprintReport]_vars

\* the report of the request has been generated
SprintReportBuilt ==
  /\ pc \in {"getFileContent", "putContents", "mkdir", "writeFile", "responded", "failed"}
  /\ locals # <<>>
  /\ "doc" \in DOMAIN locals[1]

\* C18: every percentage derived from the sprint issue total is 0 when the
\* total is 0: for an empty sprint completionRate is 0 and the done, in
\* progress, to do and blocked percentages of the sprint report built from
\* that result are each the number 0, never an undefined or NaN value.
C18_EmptySprintPercentages ==
  (SprintReportBuilt /\ locals[1].health.issueBreakdown.total = 0) =>
    /\ locals[1].health.metrics.completionRate = 0
    /\ locals[1].doc.content.completionRate = "0%"
    /\ \A i \in 1..4 : locals[1].doc.content.breakdown[i].percentage = "0%"
-----------------------------------------------------------------------------
(* The tool-call handler of the server: the branch a tool name takes, the
   collaborator calls the branch awaits in order, and the one response *)

\* for each tool modelled: the optional client its branch tests for, whether
\* the branch parses its arguments with a schema, and the calls it awaits in
\* order, each with whether a catch inside the operation absorbs its error
ToolPlan ==
  [github_get_repos |->
     [needs |-> "github", parses |-> FALSE,
      chain |-> <<[fn |-> "getRepositories", absorbed |-> FALSE]>>],
   github_get_repo |->
     [needs |-> "github", parses |-> TRUE,
      chain |-> <<[fn |-> "getRepository", absorbed |-> FALSE]>>],
   confluence_get_spaces |->
     [needs |-> "confluence", parses |-> FALSE,
      chain |-> <<[fn |-> "getSpaces", absorbed |-> FALSE]>>],
   publish_release_notes_to_confluence |->
     [needs |-> "confluence", parses |-> TRUE,
      chain |-> <<[fn |-> "searchIssues", absorbed |-> FALSE],
                  [fn |-> "createPage", absorbed |-> FALSE],
                  [fn |-> "addPageLabels", absorbed |-> FALSE]>>],
   analyze_sprint_health |->
     [needs |-> "none", parses |-> TRUE,
      chain |-> <<[fn |-> "getSprintIssues", absorbed |-> FALSE],
                  [fn |-> "getSprints", absorbed |-> TRUE]>>],
   save_doc_to_github |->
     [needs |-> "none", parses |-> FALSE,
      chain |-> <<[fn |-> "getFileContent", absorbed |-> TRUE],
                  [fn |-> "putContents", absorbed |-> FALSE]>>]]

InitTools ==
  /\ clients \in [github : BOOLEAN, confluence : BOOLEAN]
  /\ tracker = <<>>
  /\ pc = "idle"
  /\ args = <<>>
  /\ issues = <<>>
  /\ locals = <<>>
  /\ result = <<>>
  /\ prev = <<>>
  /\ calls = <<>>

\* a tool call arrives, with arguments that pass the schema of the tool or do
\* not: the handler runs to its first await or to its response. A name whose
\* branch tests for an absent client matches no branch and reaches the throw
\* of the end, as a name of no tool does; save_doc_to_github answers for
\* itself without a GitHub client
CallTool ==
  /\ pc \in {"idle", "responded"}
  /\ \E name \in DOMAIN ToolPlan \cup {"no_such_tool"}, valid \in BOOLEAN :
       /\ args' = [name |-> name, valid |-> valid]
       /\ IF \/ name \notin DOMAIN ToolPlan
             \/ ToolPlan[name].needs \in {"github", "confluence"}
                  /\ ~clients[ToolPlan[name].needs]
            THEN /\ pc' = "responded"
                 /\ locals' = [pending |-> <<>>, threw |-> <<>>, parseFailed |-> FALSE]
                 /\ calls' = <<>>
                 /\ result' = <<[isError |-> TRUE,
                                 text |-> <<"Error: ", "Unknown tool: ", name>>]>>
          ELSE IF ToolPlan[name].parses /\ ~valid
            THEN /\ pc' = "responded"
                 /\ locals' = [pending |-> <<>>, threw |-> <<>>, parseFailed |-> TRUE]
                 /\ calls' = <<>>
                 /\ result' = <<[isError |-> TRUE, text |-> <<"Error: ", "ZodError">>]>>
          ELSE IF name = "save_doc_to_github" /\ ~clients.github
            THEN /\ pc' = "responded"
                 /\ locals' = [pending |-> <<>>, threw |-> <<>>, parseFailed |-> FALSE]
                 /\ calls' = <<>>
                 /\ result' = <<[isError |-> TRUE,
                                 text |-> <<"GitHub not configured. Please set GITHUB_TOKEN.">>]>>
          ELSE /\ pc' = "awaiting"
               /\ locals' = [pending |-> Tail(ToolPlan[name].chain), threw |-> <<>>,
                             parseFailed |-> FALSE]
               /\ calls' = <<ToolPlan[name].chain[1]>>
               /\ result' = <<>>
  /\ UNCHANGED <<clients, tracker, issues, prev>>

\* after the awaited call: the next call of the branch is issued, or the
\* branch returns its response
ToolContinues ==
  IF locals.pending = <<>>
    THEN /\ pc' = "responded"
         /\ calls' = calls
         /\ result' = <<[isError |-> FALSE, text |-> <<"Result of ", args.name>>]>>
    ELSE /\ pc' = "awaiting"
         /\ calls' = Append(calls, locals.pending[1])
         /\ result' = <<>>

\* the awaited call resolves
ToolCallReturns ==
  /\ pc = "awaiting"
  /\ locals' = [locals EXCEPT !.pending = IF @ = <<>> THEN <<>> ELSE Tail(@)]
  /\ ToolContinues
  /\ UNCHANGED <<clients, tracker, args, issues, prev>>

\* variant: the error of the awaited call leaves the handler
ToolCallThrowsEscapes ==
  /\ pc = "awaiting"
  /\ locals' = [locals EXCEPT !.threw = Append(@, calls[Len(calls)])]
  /\ pc' = "escaped"
  /\ UNCHANGED <<clients, tracker, args, issues, result, prev, calls>>

\* the awaited call rejects: a catch inside the operation absorbs the error
\* and the branch goes on, or the error reaches the catch of the handler,
\* which answers with the message
ToolCallThrows ==
  /\ pc = "awaiting"
  /\ LET call == calls[Len(calls)]
     IN  IF call.absorbed
           THEN /\ locals' = [locals EXCEPT !.threw = Append(@, call),
                                            !.pending = IF @ = <<>> THEN <<>> ELSE Tail(@)]
                /\ ToolContinues
           ELSE /\ locals' = [locals EXCEPT !.threw = Append(@, call)]
                /\ pc' = "responded"
                /\ calls' = calls
                /\ result' = <<[isError |-> TRUE, text |-> <<"Error: ", call.fn>>]>>
  /\ UNCHANGED <<clients, tracker, args, issues, prev>>

NextTools ==
  \/ CallTool
  \/ ToolCallReturns
  \/ ToolCallThrows

SpecTools == InitTools /\ [][NextTools]_vars

(* Properties of the tool-call handler, checked under SpecTools *)

\* the handler has answered a call of a tool whose optional client is absent
AnsweredWithoutClient ==
  /\ pc = "responded"
  /\ args.name \in DOMAIN ToolPlan
  /\ ToolPlan[args.name].needs \in {"github", "confluence"}
  /\ ~clients[ToolPlan[args.name].needs]

\* C25: a GitHub- or Confluence-dependent tool (github_*, confluence_*,
\* publish_release_notes_to_confluence) invoked while that client is absent
\* yields an error response carrying a distinguished 'not configured'
\* condition, distinguishable from the response for a tool name that does not
\* exist.
C25_CapabilityUnavailable ==
  AnsweredWithoutClient =>
    /\ result[1].isError
    /\ result[1].text # <<"Error: ", "Unknown tool: ", args.name>>

\* a call of the invocation threw
CallThrew == locals.threw # <<>>

\* a call of the invocation threw an error that no catch of the operation
\* absorbs
CallThrewUnabsorbed == \E i \in DOMAIN locals.threw : ~locals.threw[i].absorbed

\* one error response with one message; no call issued twice
OneErrorResponse ==
  /\ Len(result) = 1
  /\ result[1].isError
  /\ result[1].text[1] = "Error: "

NoCallRepeated ==
  \A i, j \in DOMAIN calls : calls[i] = calls[j] => i = j

\* C26 as stated: whenever argument validation or any collaborator call
\* fails, the handler returns exactly one response with isError = true and a
\* single text message, the error never escapes the handler, and the failed
\* call is never re-issued.
C26_Original ==
  /\ pc # "escaped"
  /\ pc # "idle" => NoCallRepeated
  /\ (pc = "responded" /\ (locals.parseFailed \/ CallThrew)) => OneErrorResponse

\* C26: whenever argument validation fails, or a collaborator call fails
\* whose error the operation does not absorb as a best-effort lookup, the
\* handler returns exactly one response with isError = true and a single text
\* message; a call whose error is absorbed (the sprint-name lookup, the
\* existence check of saveToGitHub) does not make the response an error; the
\* error never escapes the handler, and no call is issued twice.
C26_ErrorResponse ==
  /\ pc # "escaped"
  /\ pc # "idle" => NoCallRepeated
  /\ (pc = "responded" /\ (locals.parseFailed \/ CallThrewUnabsorbed)) => OneErrorResponse
  /\ (pc = "responded" /\ CallThrew /\ ~CallThrewUnabsorbed) =>
       /\ Len(result) = 1
       /\ ~result[1].isError

\* the label step of publish_release_notes_to_confluence threw after the
\* search and the page creation returned: the handler answered with an error
C26_Witness ==
  /\ pc = "responded"
  /\ args.name = "publish_release_notes_to_confluence"
  /\ Len(calls) = 3
  /\ CallThrewUnabsorbed
  /\ OneErrorResponse

-----------------------------------------------------------------------------
(* The start of the server: main() builds the clients from the environment,
   the analytics object, connects the server and then serves tool requests *)

MaxRequests == 2

\* process.env: each variable unset (<<>>) or set to a string, here the
\* variables the client factories read
Environments ==
  LET cloudUrl == <<"h",".","a","t","l","a","s","s","i","a","n",".","n","e","t">>
      serverUrl == <<"j","i","r","a",".","h",".","i","o","/">>
      flags == {<<>>, << <<"t","r","u","e">> >>, << <<"T","R","U","E">> >>,
                << <<"f","a","l","s","e">> >>}
  IN  [JIRA_BASE_URL : {<<>>, << <<>> >>, <<cloudUrl>>, <<serverUrl>>},
       JIRA_API_TOKEN : {<<>>, << <<"t">> >>},
       JIRA_EMAIL : {<<>>, << <<"e">> >>},
       JIRA_IS_CLOUD : flags,
       GITHUB_TOKEN : {<<>>, << <<"g">> >>},
       CONFLUENCE_BASE_URL : {<<>>, <<cloudUrl>>, <<serverUrl>>},
       CONFLUENCE_API_TOKEN : {<<>>, << <<"t">> >>},
       CONFLUENCE_EMAIL : {<<>>, << <<"e">> >>},
       CONFLUENCE_IS_CLOUD : {<<>>}]

\* !value for an environment variable: unset or the empty string
EnvFalsy(value) == value = <<>> \/ value[1] = <<>>

\* the isCloud of both factories: the override when set, else the URL test
IsCloud(isCloudEnv, baseUrl) ==
  IF isCloudEnv # <<>>
    THEN toLowerCase(isCloudEnv[1]) = <<"t","r","u","e">>
    ELSE baseUrl # <<>>
           /\ includes(baseUrl[1], <<".","a","t","l","a","s","s","i","a","n",".","n","e","t">>)

\* variant: the email is not required for a cloud instance
JiraConfigErrorWithoutEmail(env) ==
  EnvFalsy(env.JIRA_BASE_URL) \/ EnvFalsy(env.JIRA_API_TOKEN)

\* createJiraClientFromEnv throws
JiraConfigError(env) ==
  \/ EnvFalsy(env.JIRA_BASE_URL) \/ EnvFalsy(env.JIRA_API_TOKEN)
  \/ IsCloud(env.JIRA_IS_CLOUD, env.JIRA_BASE_URL) /\ EnvFalsy(env.JIRA_EMAIL)

\* createConfluenceClientFromEnv returns a client, not null
ConfluenceFromEnv(env) ==
  /\ ~(EnvFalsy(env.CONFLUENCE_BASE_URL) \/ EnvFalsy(env.CONFLUENCE_API_TOKEN))
  /\ ~(IsCloud(env.CONFLUENCE_IS_CLOUD, env.CONFLUENCE_BASE_URL)
         /\ EnvFalsy(env.CONFLUENCE_EMAIL))

\* the process starts: every client is null, args holds the environment
InitMain ==
  /\ args \in Environments
  /\ clients = [github |-> FALSE, confluence |-> FALSE]
  /\ locals = [jiraClient |-> FALSE, aiAnalytics |-> FALSE]
  /\ pc = "main"
  /\ tracker = <<>>
  /\ issues = <<>>
  /\ result = <<>>
  /\ prev = <<>>
  /\ calls = <<>>

\* jiraClient = createJiraClientFromEnv() in its try: on a throw the catch
\* prints the required variables and the process exits with code 1
CreateJiraClient ==
  /\ pc = "main"
  /\ IF JiraConfigError(args)
       THEN /\ pc' = "exited"
            /\ result' = <<1>>
            /\ locals' = locals
       ELSE /\ pc' = "optionalClients"
            /\ result' = result
            /\ locals' = [locals EXCEPT !.jiraClient = TRUE]
  /\ UNCHANGED <<clients, tracker, args, issues, prev, calls>>

\* the optional clients, then new AIAnalytics(jiraClient, githubClient,
\* confluenceClient), the handlers, and the await of server.connect
CreateOptionalClients ==
  /\ pc = "optionalClients"
  /\ clients' = [github |-> ~EnvFalsy(args.GITHUB_TOKEN),
                 confluence |-> ConfluenceFromEnv(args)]
  /\ locals' = [locals EXCEPT !.aiAnalytics = TRUE]
  /\ pc' = "connecting"
  /\ UNCHANGED <<tracker, args, issues, result, prev, calls>>

\* server.connect(transport) resolves: the server is running
ServerConnects ==
  /\ pc = "connecting"
  /\ pc' = "running"
  /\ UNCHANGED <<clients, tracker, args, issues, locals, result, prev, calls>>

\* server.connect rejects: main().catch exits with code 1
ServerConnectFails ==
  /\ pc = "connecting"
  /\ pc' = "exited"
  /\ result' = <<1>>
  /\ UNCHANGED <<clients, tracker, args, issues, locals, prev, calls>>

\* a tool request is handled through a client the server holds: one fetch
HandleToolRequest ==
  /\ pc = "running"
  /\ Len(calls) < MaxRequests
  /\ \E client \in {"jira", "github", "confluence"} :
       /\ IF client = "jira" THEN locals.jiraClient ELSE clients[client]
       /\ calls' = Append(calls, [fn |-> "fetch", client |-> client])
  /\ UNCHANGED <<clients, tracker, pc, args, issues, locals, result, prev>>

NextMain ==
  \/ CreateJiraClient
  \/ CreateOptionalClients
  \/ ServerConnects
  \/ ServerConnectFails
  \/ HandleToolRequest

SpecMain == InitMain /\ [][NextMain]_vars

\* a required Jira variable is missing: JIRA_BASE_URL or JIRA_API_TOKEN unset
\* or empty, or JIRA_EMAIL for an instance configured or detected as cloud
JiraVariableMissing ==
  LET missing(v) == args[v] = <<>> \/ Len(args[v][1]) = 0
      cloud == IF args.JIRA_IS_CLOUD = <<>>
                 THEN /\ ~missing("JIRA_BASE_URL")
                      /\ includes(args.JIRA_BASE_URL[1],
                                  <<".","a","t","l","a","s","s","i","a","n",".","n","e","t">>)
                 ELSE toLowerCase(args.JIRA_IS_CLOUD[1]) = <<"t","r","u","e">>
  IN  missing("JIRA_BASE_URL") \/ missing("JIRA_API_TOKEN")
        \/ (cloud /\ missing("JIRA_EMAIL"))

\* C27: a fatal configuration error aborts before any work: when
\* JIRA_BASE_URL or JIRA_API_TOKEN is missing (or JIRA_EMAIL for a cloud
\* instance) client creation fails and the process exits before the
\* analytics object is built, before the server connects and before any tool
\* request or fetch; a missing GitHub or Confluence configuration is not
\* fatal and only leaves that client absent.
C27_FatalConfiguration ==
  /\ JiraVariableMissing =>
       /\ pc \in {"main", "exited"}
       /\ ~locals.jiraClient /\ ~locals.aiAnalytics
       /\ clients = [github |-> FALSE, confluence |-> FALSE]
       /\ calls = <<>>
  /\ (~JiraVariableMissing /\ pc # "main") =>
       /\ locals.jiraClient
       /\ pc = "running" =>
            /\ locals.aiAnalytics
            /\ clients.github <=> args.GITHUB_TOKEN # <<>>
            /\ (args.CONFLUENCE_BASE_URL = <<>> \/ args.CONFLUENCE_API_TOKEN = <<>>)
                 => ~clients.confluence
  /\ \A i \in DOMAIN calls :
       IF calls[i].client = "jira" THEN locals.jiraClient ELSE clients[calls[i].client]

\* the process has exited on a cloud instance without JIRA_EMAIL, the other
\* variables and the GitHub token being set
C27_Witness ==
  /\ pc = "exited"
  /\ result = <<1>>
  /\ args.JIRA_BASE_URL # <<>> /\ args.JIRA_BASE_URL[1] # <<>>
  /\ args.JIRA_API_TOKEN # <<>>
  /\ args.JIRA_EMAIL = <<>>
  /\ args.GITHUB_TOKEN # <<>>
  /\ ~locals.aiAnalytics
  /\ calls = <<>>

-----------------------------------------------------------------------------
(* The Confluence client with its default space, the wiki behind it, and the
   two operations of AIAnalytics that need an optional client:
   publishReleaseNotesToConfluence and createIssuesFromGitHub *)

MaxPages == 3
MaxVersion == 2

\* the space keys of callers and pages: the default space as configured and
\* in small letters, and another space
SpaceKeys == { <<"D","O","C","S">>, <<"d","o","c","s">>, <<"O","P","S">> }

\* the CQL strings of callers
CqlQueries ==
  { <<"t","y","p","e"," ","="," ","p","a","g","e">>,
    <<"s","p","a","c","e"," ","="," ","\"","O","P","S","\"">>,
    <<"S","P","A","C","E","=","\"","O","P","S","\""," ","A","N","D"," ",
      "t","y","p","e"," ","="," ","p","a","g","e">>,
    <<"t","i","t","l","e"," ","~"," ","\"","s","p","a","c","e"," ","="," ","x","\"">>,
    <<"s","p","a","c","e"," ","="," ","\"","D","O","C","S","\""," ","A","N","D"," ",
      "t","y","p","e"," ","="," ","p","a","g","e">> }


\* ConfluenceClient.isSpaceAllowed
isSpaceAllowed(spaceKey) ==
  LET toUpperCase(str) == [i \in DOMAIN str |-> toUpperCaseChar(str[i])]
  IN  clients.defaultSpaceKey = <<>>
        \/ toUpperCase(spaceKey) = toUpperCase(clients.defaultSpaceKey[1])

\* validateSpaceAccess(spaceKey) throws 'Access denied'
AccessDenied(spaceKey) == clients.defaultSpaceKey # <<>> /\ ~isSpaceAllowed(spaceKey)

\* the finalCql of ConfluenceClient.search
FinalCql(cql) ==
  IF /\ clients.defaultSpaceKey # <<>>
     /\ ~includes(toLowerCase(cql), <<"s","p","a","c","e"," ","=">>)
     /\ ~includes(toLowerCase(cql), <<"s","p","a","c","e","=">>)
    THEN <<"s","p","a","c","e"," ","="," ","\"">> \o clients.defaultSpaceKey[1]
           \o <<"\""," ","A","N","D"," ","(">> \o cql \o <<")">>
    ELSE cql

\* variant: the operation goes on without the client
NotConfiguredIgnored(client) == FALSE

\* if (!this.githubClient), if (!this.confluenceClient)
NotConfigured(client) == ~clients[client]

\* a request of the Confluence client as fetch sends it
WikiRequest(method, target, page, space, cql) ==
  [method |-> method, target |-> target, page |-> page, space |-> space, cql |-> cql]

\* the wiki holds a page in the default space and one in another space; the
\* Confluence client, when there is one, has a default space or none
InitWiki ==
  /\ clients \in
       {[github |-> g, confluence |-> FALSE, defaultSpaceKey |-> <<>>] : g \in BOOLEAN}
       \cup {[github |-> g, confluence |-> TRUE, defaultSpaceKey |-> k] :
               g \in BOOLEAN, k \in {<<>>, << <<"D","O","C","S">> >>}}
  /\ tracker = [pages |-> << [space |-> <<"D","O","C","S">>, version |-> 1,
                              deleted |-> FALSE, labels |-> {}],
                             [space |-> <<"O","P","S">>, version |-> 1,
                              deleted |-> FALSE, labels |-> {}] >>]
  /\ pc = "idle"
  /\ args = <<>>
  /\ issues = <<>>
  /\ locals = <<>>
  /\ result = <<>>
  /\ prev = <<>>
  /\ calls = <<>>

\* ConfluenceClient.search(cql): the request carries finalCql
CallSearch ==
  /\ Idle
  /\ clients.confluence
  /\ \E cql \in CqlQueries :
       /\ args' = [op |-> "search", cql |-> cql]
       /\ calls' = <<WikiRequest("GET", "search", 0, <<>>, FinalCql(cql))>>
  /\ pc' = "request"
  /\ locals' = [pagesBefore |-> tracker.pages]
  /\ result' = <<>>
  /\ UNCHANGED <<clients, tracker, issues, prev>>

\* createPage(payload) up to the POST: the space key of the payload or the
\* default one, required, and validated
CreatePageStarts(spaceKey, awaiting) ==
  LET key == IF spaceKey # <<>> /\ spaceKey[1] # <<>> THEN spaceKey
             ELSE clients.defaultSpaceKey
  IN  IF key = <<>>
        THEN /\ pc' = "failed"
             /\ result' = <<"Space key is required">>
             /\ calls' = <<>>
      ELSE IF AccessDenied(key[1])
        THEN /\ pc' = "failed"
             /\ result' = <<"Access denied">>
             /\ calls' = <<>>
      ELSE /\ pc' = awaiting
           /\ result' = <<>>
           /\ calls' = <<WikiRequest("POST", "content", 0, key[1], <<>>)>>

\* ConfluenceClient.createPage(payload)
CallCreatePage ==
  /\ Idle
  /\ clients.confluence
  /\ Len(tracker.pages) < MaxPages
  /\ \E spaceKey \in {<<>>} \cup {<<k>> : k \in SpaceKeys} :
       /\ args' = [op |-> "createPage", spaceKey |-> spaceKey]
       /\ CreatePageStarts(spaceKey, "request")
  /\ locals' = [pagesBefore |-> tracker.pages]
  /\ UNCHANGED <<clients, tracker, issues, prev>>

\* ConfluenceClient.updatePage(pageId, payload): getPage is awaited first
CallUpdatePage ==
  /\ Idle
  /\ clients.confluence
  /\ \E pageId \in 1..2 :
       /\ tracker.pages[pageId].version < MaxVersion
       /\ args' = [op |-> "updatePage", pageId |-> pageId]
       /\ calls' = <<WikiRequest("GET", "content", pageId, <<>>, <<>>)>>
  /\ pc' = "getPage"
  /\ locals' = [pagesBefore |-> tracker.pages]
  /\ result' = <<>>
  /\ UNCHANGED <<clients, tracker, issues, prev>>

\* getPage: the page arrives with its space, which is validated when a
\* default space is configured; then updatePage sends the PUT
GetPageReturns ==
  /\ pc = "getPage"
  /\ ~tracker.pages[args.pageId].deleted
  /\ IF AccessDenied(tracker.pages[args.pageId].space)
       THEN /\ pc' = "failed"
            /\ result' = <<"Access denied">>
            /\ calls' = calls
       ELSE /\ pc' = "request"
            /\ result' = <<>>
            /\ calls' = Append(calls, WikiRequest("PUT", "content", args.pageId, <<>>, <<>>))
  /\ UNCHANGED <<clients, tracker, args, issues, locals, prev>>

\* ConfluenceClient.deletePage(pageId): the DELETE is sent
CallDeletePage ==
  /\ Idle
  /\ clients.confluence
  /\ \E pageId \in 1..2 :
       /\ args' = [op |-> "deletePage", pageId |-> pageId]
       /\ calls' = <<WikiRequest("DELETE", "content", pageId, <<>>, <<>>)>>
  /\ pc' = "request"
  /\ locals' = [pagesBefore |-> tracker.pages]
  /\ result' = <<>>
  /\ UNCHANGED <<clients, tracker, issues, prev>>

\* the wiki after it has served the request
Served(request) ==
  IF request.method = "POST" /\ request.target = "content"
    THEN [tracker EXCEPT !.pages = Append(@, [space |-> request.space, version |-> 1,
                                               deleted |-> FALSE, labels |-> {}])]
  ELSE IF request.method = "POST" /\ request.target = "label"
    THEN [tracker EXCEPT !.pages[request.page].labels = {"release-notes", "version"}]
  ELSE IF request.method = "PUT"
    THEN [tracker EXCEPT !.pages[request.page].version = @ + 1]
  ELSE IF request.method = "DELETE"
    THEN [tracker EXCEPT !.pages[request.page].deleted = TRUE]
  ELSE tracker

\* the request of search, createPage, updatePage or deletePage is served and
\* the operation returns
WikiRequestReturns ==
  /\ pc = "request"
  /\ LET request == calls[Len(calls)]
     IN  /\ request.page # 0 => ~tracker.pages[request.page].deleted
         /\ tracker' = Served(request)
  /\ pc' = "done"
  /\ result' = <<"ok">>
  /\ UNCHANGED <<clients, args, issues, locals, prev, calls>>

\* the response of a request is not ok, or fetch rejects: request() throws
\* and the error leaves the operation
WikiRequestThrows ==
  /\ pc \in {"request", "getPage", "publishCreate", "publishLabels"}
  /\ pc' = "failed"
  /\ result' = <<"Confluence API Error">>
  /\ UNCHANGED <<clients, tracker, args, issues, locals, prev, calls>>

\* AIAnalytics.publishReleaseNotesToConfluence(releaseNotes, spaceKey) up to
\* the POST of createPage
CallPublishReleaseNotes ==
  /\ Idle
  /\ Len(tracker.pages) < MaxPages
  /\ \E spaceKey \in SpaceKeys :
       /\ args' = [op |-> "publishReleaseNotesToConfluence", spaceKey |-> <<spaceKey>>]
       /\ IF NotConfigured("confluence")
            THEN /\ pc' = "failed"
                 /\ result' = <<"Confluence client not configured">>
                 /\ calls' = <<>>
            ELSE CreatePageStarts(<<spaceKey>>, "publishCreate")
  /\ locals' = [pagesBefore |-> tracker.pages]
  /\ UNCHANGED <<clients, tracker, issues, prev>>

\* createPage returns the new page: addPageLabels sends its POST
PublishPageCreated ==
  /\ pc = "publishCreate"
  /\ tracker' = Served(calls[Len(calls)])
  /\ calls' = Append(calls, WikiRequest("POST", "label", Len(tracker.pages) + 1, <<>>, <<>>))
  /\ pc' = "publishLabels"
  /\ UNCHANGED <<clients, args, issues, locals, result, prev>>

\* addPageLabels returns: the page id and URL are returned
PublishLabelsAdded ==
  /\ pc = "publishLabels"
  /\ tracker' = Served(calls[Len(calls)])
  /\ pc' = "done"
  /\ result' = <<[pageId |-> calls[Len(calls)].page, url |-> "webui"]>>
  /\ UNCHANGED <<clients, args, issues, locals, prev, calls>>

\* a call createIssuesFromGitHub awaits: its function, whether a catch
\* absorbs its error, and the PR or commit it is made for
SyncCall(fn, absorbed, source) == [fn |-> fn, absorbed |-> absorbed, source |-> source]

\* AIAnalytics.createIssuesFromGitHub(owner, repo, projectKey, options) up
\* to its first await
CallCreateIssuesFromGitHub ==
  /\ Idle
  /\ \E fromPRs \in BOOLEAN, fromCommits \in BOOLEAN :
       /\ args' = [op |-> "createIssuesFromGitHub", fromPRs |-> fromPRs,
                   fromCommits |-> fromCommits]
       /\ IF NotConfigured("github")
            THEN /\ pc' = "failed"
                 /\ result' = <<"GitHub client not configured">>
                 /\ calls' = <<>>
                 /\ locals' = [pagesBefore |-> tracker.pages, pending |-> <<>>,
                               created |-> <<>>]
          ELSE IF fromPRs \/ fromCommits
            THEN /\ pc' = "sync"
                 /\ result' = <<>>
                 /\ calls' = <<SyncCall(IF fromPRs THEN "getPullRequests" ELSE "getCommits",
                                        FALSE, 0)>>
                 /\ locals' = [pagesBefore |-> tracker.pages,
                               pending |-> IF fromPRs /\ fromCommits
                                             THEN <<SyncCall("getCommits", FALSE, 0)>>
                                             ELSE <<>>,
                               created |-> <<>>]
          ELSE /\ pc' = "done"
               /\ result' = << <<>> >>
               /\ calls' = <<>>
               /\ locals' = [pagesBefore |-> tracker.pages, pending |-> <<>>,
                             created |-> <<>>]
  /\ UNCHANGED <<clients, tracker, issues, prev>>

\* the calls the loop over the fetched PRs or commits makes: for each PR
\* without an issue key in its title the similar-issue search of
\* analyzeIssueText (the texts here have words longer than 4 characters) and
\* createIssue; for each commit that is neither linked nor a merge createIssue
LoopCalls(fn, items) ==
  LET todo == SelectSeq(items, LAMBDA item : item.kind = "plain")
  IN  IF fn = "getPullRequests"
        THEN [i \in 1..(2 * Len(todo)) |->
                IF i % 2 = 1 THEN SyncCall("searchIssues", TRUE, todo[(i + 1) \div 2].id)
                ELSE SyncCall("createIssue", FALSE, todo[i \div 2].id)]
        ELSE [i \in 1..Len(todo) |-> SyncCall("createIssue", FALSE, todo[i].id)]

\* createIssuesFromGitHub after an await, with the calls still to make and
\* the issues created so far: the next call, or the return of `created`
SyncContinues(pending, created) ==
  /\ locals' = [locals EXCEPT !.pending = IF pending = <<>> THEN <<>> ELSE Tail(pending),
                              !.created = created]
  /\ IF pending = <<>>
       THEN /\ pc' = "done"
            /\ calls' = calls
            /\ result' = <<created>>
       ELSE /\ pc' = "sync"
            /\ calls' = Append(calls, pending[1])
            /\ result' = <<>>

\* the awaited call of createIssuesFromGitHub resolves: a fetched list of PRs
\* or commits gives the calls of its loop, a created issue is recorded
SyncCallReturns ==
  /\ pc = "sync"
  /\ LET call == calls[Len(calls)]
     IN  IF call.fn \in {"getPullRequests", "getCommits"}
           THEN \E items \in { <<>>,
                               <<[id |-> 7, kind |-> "plain"]>>,
                               <<[id |-> 6, kind |-> "linked"], [id |-> 7, kind |-> "merge"],
                                 [id |-> 8, kind |-> "plain"]>> } :
                  /\ call.fn = "getPullRequests" =>
                       \A i \in DOMAIN items : items[i].kind # "merge"
                  /\ SyncContinues(LoopCalls(call.fn, items) \o locals.pending,
                                   locals.created)
         ELSE IF call.fn = "createIssue"
           THEN SyncContinues(locals.pending, Append(locals.created, call.source))
         ELSE SyncContinues(locals.pending, locals.created)
  /\ UNCHANGED <<clients, tracker, args, issues, prev>>

\* the awaited call rejects: the search of analyzeIssueText is absorbed, any
\* other error leaves createIssuesFromGitHub
SyncCallThrows ==
  /\ pc = "sync"
  /\ IF calls[Len(calls)].absorbed
       THEN SyncContinues(locals.pending, locals.created)
       ELSE /\ pc' = "failed"
            /\ result' = <<"Error">>
            /\ UNCHANGED <<locals, calls>>
  /\ UNCHANGED <<clients, tracker, args, issues, prev>>

NextWiki ==
  \/ CallSearch
  \/ CallCreatePage
  \/ CallUpdatePage
  \/ GetPageReturns
  \/ CallDeletePage
  \/ WikiRequestReturns
  \/ WikiRequestThrows
  \/ CallPublishReleaseNotes
  \/ PublishPageCreated
  \/ PublishLabelsAdded
  \/ CallCreateIssuesFromGitHub
  \/ SyncCallReturns
  \/ SyncCallThrows

SpecWiki == InitWiki /\ [][NextWiki]_vars

(* Properties of the Confluence client and of the operations that need an
   optional client, checked under SpecWiki *)

\* the operation of the invocation, "none" before the first one
WikiOperation == IF pc = "idle" THEN "none" ELSE args.op

\* C24: createIssuesFromGitHub with no GitHub client and
\* publishReleaseNotesToConfluence with no Confluence client each throw a
\* 'not configured' error before making any collaborator call: no issue or
\* page is created, no fetch is issued.
C24_FailFast ==
  /\ (WikiOperation = "createIssuesFromGitHub" /\ ~clients.github) =>
       /\ pc = "failed"
       /\ result = <<"GitHub client not configured">>
       /\ calls = <<>>
       /\ locals.created = <<>>
       /\ tracker.pages = locals.pagesBefore
  /\ (WikiOperation = "publishReleaseNotesToConfluence" /\ ~clients.confluence) =>
       /\ pc = "failed"
       /\ result = <<"Confluence client not configured">>
       /\ calls = <<>>
       /\ tracker.pages = locals.pagesBefore

\* createIssuesFromGitHub, asked for PRs and commits, has failed without a
\* GitHub client on a server that has a Confluence client
C24_Witness ==
  /\ WikiOperation = "createIssuesFromGitHub"
  /\ args.fromPRs /\ args.fromCommits
  /\ ~clients.github
  /\ clients.confluence
  /\ pc = "failed"
  /\ calls = <<>>

\* the query is restricted to the space: it is the conjunction of the space
\* test and something else
RestrictedTo(cql, spaceKey) ==
  LET prefix == <<"s","p","a","c","e"," ","="," ","\"">> \o spaceKey
                  \o <<"\""," ","A","N","D"," ">>
  IN  Len(cql) > Len(prefix) /\ SubSeq(cql, 1, Len(prefix)) = prefix

\* C28: when a default space key is configured, the query ConfluenceClient
\* search sends is restricted to the configured space, for every CQL string
\* of the caller.
C28_SearchRestricted ==
  (WikiOperation = "search" /\ clients.defaultSpaceKey # <<>>) =>
    \A i \in DOMAIN calls : RestrictedTo(calls[i].cql, clients.defaultSpaceKey[1])

\* the space of the page a request creates or addresses
TargetSpace(request) ==
  IF request.page = 0 THEN request.space ELSE tracker.pages[request.page].space

\* the space is the default one, letter case apart
IsDefaultSpace(spaceKey) ==
  toLowerCase(spaceKey) = toLowerCase(clients.defaultSpaceKey[1])

\* C29: when a default space key is configured, createPage, updatePage and
\* deletePage never send a POST, PUT or DELETE for a page of a different
\* space: such a call fails with 'Access denied' and the remote page state is
\* unchanged (space keys compared case-insensitively).
C29_SpaceRestrictedWrites ==
  (WikiOperation \in {"createPage", "updatePage", "deletePage"}
     /\ clients.defaultSpaceKey # <<>>) =>
    /\ \A i \in DOMAIN calls :
         calls[i].method \in {"POST", "PUT", "DELETE"} => IsDefaultSpace(TargetSpace(calls[i]))
    /\ (pc \in {"done", "failed"} /\ calls # <<>>
          /\ ~IsDefaultSpace(TargetSpace(calls[1]))) =>
         /\ pc = "failed"
         /\ result = <<"Access denied">>
         /\ tracker.pages = locals.pagesBefore

\* C30: publishReleaseNotesToConfluence is all-or-nothing: either it returns
\* the page id and URL with the page created and both labels added, or it
\* fails and no page has been created; a failure of the label step cannot
\* leave a created page behind an error result.
C30_AllOrNothing ==
  WikiOperation = "publishReleaseNotesToConfluence" =>
    /\ pc = "done" =>
         /\ Len(tracker.pages) = Len(locals.pagesBefore) + 1
         /\ result[1].pageId = Len(tracker.pages)
         /\ tracker.pages[result[1].pageId].labels = {"release-notes", "version"}
    /\ pc = "failed" => tracker.pages = locals.pagesBefore

====
